---- MODULE Spec2Model ----
(***************************************************************************)
(* Model of the parameter engine of param/parameterized.py.                *)
(*                                                                         *)
(* One Parameterized instance `obj` of one class C is modelled, and one    *)
(* subclass D of C that declares nothing of its own.  C declares five      *)
(* parameters:                                                             *)
(*     x  = Parameter(default=1, constant=True)                            *)
(*     c0 = Parameter(default=None, constant=True)                         *)
(*     y  = Parameter(default=0)                                           *)
(*     r  = Parameter(default=1, readonly=True)                            *)
(*     m  = Parameter(default=[], deep_copy=True)                          *)
(* A second class M, with instances o1 and o2, declares                    *)
(*     k  = Parameter(default=1, class_member=True)                        *)
(*     j  = Parameter(default=1)                                           *)
(*     d  = Parameter(default=[], deep_copy=True)                          *)
(* Every action is one method or context-manager step of the source,       *)
(* executed as its text is written, on that instance or on its `param`     *)
(* namespace (an InstanceParameters object).  An operation that raises     *)
(* leaves the exception in `exc`, as [type, line]: its type and the line   *)
(* of the operation's own statement at which it leaves the operation.      *)
(***************************************************************************)
EXTENDS Integers, Sequences, FiniteSets, TLC

\* ------------------------------------------------------------------ bounds
MaxVal == 1      \* parameter values are None, 0..MaxVal and one opaque object
MaxEvents == 2   \* events buffered before the harness stops adding more
MaxDepth == 2    \* batching scopes open at once
MaxWrites == 3   \* writes recorded inside one outermost batching scope
MaxItems == 2    \* items of a list, tuple, set or dict given to the Comparator
MaxSpecLen == 5  \* characters of a dependency spec
MaxCopies == 3   \* deep copies of a default made by _deep_copy_param

\* ------------------------------------------------------------ value domain
NoneVal == -1    \* Python None
Absent == -2     \* no entry under the internal name in __dict__
ObjVal == -3     \* an object of a type the Comparator has no equality for
ListDefault == -4  \* the list object that is the declared default of m
ListCopy == -5     \* a list object made by copy.deepcopy of that default

Nums == 0..MaxVal
Values == {NoneVal, ObjVal} \cup Nums

\* ------------------------------------------------- the declared parameters
Params == {"x", "c0", "y", "r", "m"}
UnknownName == "z"

\* The parameters of class M and its instances
MemberParams == {"k", "j", "d"}
MInsts == {"o1", "o2"}

\* Parameter.__init__ stores the declared slots.
Default(p) == CASE p = "x" -> 1 [] p = "c0" -> NoneVal [] p = "y" -> 0
                [] p \in {"m", "d"} -> ListDefault [] OTHER -> 1
Constant(p) == p \in {"x", "c0"}
ReadOnly(p) == p = "r"
ClassMember(p) == p = "k"
DeclaredDeepCopy(p) == p \in {"m", "d"}

\* Parameter.deep_copy setter: read-only parameters never deep-copy,
\* constant ones always do.
DeepCopy(p) == IF ReadOnly(p) THEN FALSE ELSE DeclaredDeepCopy(p) \/ Constant(p)

\* shared_parameters._shared_cache as the class body leaves it: no entry
\* for any deep_copy parameter of M (the key is (str(type(inst)), name)).
EmptyCache == [p \in {q \in MemberParams : DeclaredDeepCopy(q)} |-> Absent]

\* ------------------------------------------------------------- the classes
Classes == {"C", "D"}
\* classlist(class_): the hierarchy above and including the class, base
\* first (object and Parameterized hold none of the names modelled).
classlist(cls) == IF cls = "D" THEN <<"C", "D">> ELSE <<"C">>

\* Names looked up in a class; a Parameter object is written by an id: a
\* declared parameter by its name, the object `pobj` by NewParam, and
\* NoParam where the name holds no Parameter.
AttrNames == Params \cup {UnknownName}
NoParam == "-"
NewParam == "pobj"
NoDict == [n \in AttrNames |-> NoParam]

\* The Parameter entries of each class __dict__ as the class bodies leave
\* them.
DeclaredDict ==
  [c \in Classes |-> [n \in AttrNames |-> IF c = "C" /\ n \in Params THEN n ELSE NoParam]]

\* The class attribute '_<name>__params' is created by
\* ClassParameters.objects only: no class has it before the first call.
NoCache == [c \in Classes |-> <<>>]

\* --------------------------------------------------------------- exceptions
NoExc == [type |-> "none", line |-> 0]
Raise(t, l) == [type |-> t, line |-> l]

VARIABLES
  class_dict,    \* the Parameter entries of each class __dict__, by name
  params_cache,  \* each class's '_<name>__params': <<>> or <<paramdict>>
  pobj,          \* slots of one Parameter object bound to no name
  async_executor, \* the module's async_executor is set (not None)
  initialized,   \* obj.initialized
  store,         \* obj.__dict__, by parameter: value under its internal name
  BATCH_WATCH,   \* obj.param._parameters_state['BATCH_WATCH']
  TRIGGER,       \* obj.param._parameters_state['TRIGGER']
  events,        \* obj.param._parameters_state['events']
  watchers,      \* obj.param._parameters_state['watchers']
  registered,    \* obj._param_watchers[name]['value'], by parameter
  scopes,        \* open batching context managers, innermost last
  fresh,         \* the object the last constructor call was run on
  invoked,       \* callbacks run by the last operation, or handed to the
                 \* executor by it: <<[w, args, via]>>
  exc,           \* exception the last operation raised to its caller
  written,       \* values written since the outermost open scope was entered
  member_cls,    \* M.__dict__, by parameter: value under its internal name
  member_inst,   \* __dict__ of each instance of M, by parameter
  share,         \* shared_parameters._share
  shared_cache,  \* shared_parameters._shared_cache, by parameter of M
  share_depth,   \* `with shared_parameters()` blocks open (history)
  copies,        \* deep copies of a default made so far (history)
  inscope,       \* instances of M given their copy of d since the
                 \* outermost open shared_parameters block was entered
  bobj,          \* slots of the Parameter object declared as y of class C
  captured,      \* the state dictionary last returned by obj.__getstate__()
  restored,      \* the object last given a state by __setstate__
  prop_fval,     \* fval of the `attribute` descriptor held by the class
  len_signature, \* __len_signature__ of each validator function, 0 if unset
  attr_value,    \* the value the descriptor's setter stored on the object
  calls,         \* validator and setter calls made by the last operation
  last           \* the last operation, its arguments and what it started from

vars == <<class_dict, params_cache, pobj, async_executor, initialized, store, BATCH_WATCH, TRIGGER, events, watchers,
          registered, scopes, fresh, invoked, exc, written, member_cls, member_inst,
          share, shared_cache, share_depth, copies, inscope, bobj,
          captured, restored, prop_fval, len_signature, attr_value, calls, last>>

dispVars == <<BATCH_WATCH, TRIGGER, events, watchers, scopes>>

clsVars == <<class_dict, params_cache>>

sharedVars == <<share, shared_cache, share_depth, copies, inscope>>

attrVars == <<prop_fval, len_signature, attr_value, calls>>

extVars == <<member_cls, member_inst, sharedVars, bobj, captured, restored, attrVars>>

\* ------------------------------------------------------------------ watchers
\* Watcher(inst, cls, fn, mode, onlychanged, parameter_names, what, queued,
\* precedence); `id` stands for the identity of the record and of its fn,
\* and coroutine tells whether fn is a coroutine function.
Watcher(id, oc, names, q, prec) ==
  [id |-> id, mode |-> "args", onlychanged |-> oc, parameter_names |-> names,
   what |-> "value", queued |-> q, precedence |-> prec, coroutine |-> FALSE]

W1 == Watcher("w1", TRUE, <<"y">>, FALSE, 1)
W2 == Watcher("w2", FALSE, <<"y">>, FALSE, 0)
W3 == Watcher("w3", TRUE, <<"y">>, TRUE, 1)
W4 == [Watcher("w4", FALSE, <<"y">>, FALSE, 0) EXCEPT !.coroutine = TRUE]
Watchers == {W1, W2}
NoWatcher == Watcher("-", FALSE, <<>>, FALSE, 0)

\* Event(what, name, obj, cls, old, new, type); obj and cls are always the
\* one instance and its class.  type is None until dispatch.
Event(name, old, new, type) ==
  [what |-> "value", name |-> name, old |-> old, new |-> new, type |-> type]
NoEvent == Event("-", Absent, Absent, "None")

\* ------------------------------------------------------------------- reads
\* Parameter.__get__(obj, objtype) through the instance:
\* obj.__dict__.get(self._internal_name, self.default)
InstGet(p) == IF store[p] # Absent THEN store[p] ELSE Default(p)

\* Parameter.__get__(obj, objtype): through the class obj is None, and
\* None.__dict__ raises AttributeError.
Parameter_get(viaInstance, p) ==
  IF viaInstance THEN [exc |-> NoExc, val |-> InstGet(p)]
  ELSE [exc |-> Raise("AttributeError", 1079), val |-> Absent]

\* ------------------------------------------------------------ Python values
\* A value given to the Comparator: its type, a number that tells values
\* of one type apart (the numeric value of a number, the identity of an
\* object, the key of a dict item) and, for a container, its items in
\* iteration order.  A dict holds items, each a key with one value.
Py(t, n, items) == [t |-> t, n |-> n, items |-> items]
PyNone == Py("NoneType", 0, <<>>)

\* ----------------------------------------------------------------- history
\* last: op and its arguments (p, v, via, w, e, raising, the frame a scope
\* exit closed).  A write records in old the value p read as before it, a
\* read records in v the value returned, update records in flag the
\* batching flag before it, and a scope exit records in evs and ws the
\* buffers before it.  watch and watch_values record the names and the
\* precedence given and, in w, the Watcher returned.  objects records in
\* cls the class asked and in ret the dictionary returned, values in flag
\* its argument and in vals the dictionary returned, is_equal its
\* arguments in obj1 and obj2 and its result in res,
\* _parse_dependency_spec its argument in spec and the tuple returned in
\* parsed.
NoFrame == [kind |-> "-", saved |-> FALSE, run |-> FALSE, evLen |-> 0, wLen |-> 0,
            evs |-> <<>>, ws |-> <<>>, kept |-> FALSE]
Op(name) == [op |-> name, p |-> "-", v |-> Absent, old |-> Absent, via |-> "-",
             w |-> NoWatcher, e |-> NoEvent, w2 |-> NoWatcher, e2 |-> NoEvent,
             raising |-> FALSE, names |-> <<>>, prec |-> 0, flags |-> <<>>,
             frame |-> NoFrame, flag |-> FALSE, evs |-> <<>>, ws |-> <<>>,
             cls |-> "-", ret |-> NoDict, vals |-> [p \in Params |-> Absent],
             obj1 |-> PyNone, obj2 |-> PyNone, res |-> FALSE,
             spec |-> <<>>, parsed |-> <<>>, deps |-> <<>>, dynamic_deps |-> <<>>]
NoFresh == [made |-> FALSE, initialized |-> FALSE, container |-> FALSE,
            store |-> [p \in Params |-> Absent], extra |-> {}, warned |-> FALSE]

\* obj._param_watchers as restored with the instance: W2 and W1 on y.
InitialWatchers == [p \in Params |-> IF p = "y" THEN <<W2, W1>> ELSE <<>>]

\* ---------------------------------------------------- the Parameter object
\* The slots of a Parameter; `assigned` holds the names of the slots that
\* were assigned (reading any other slot raises AttributeError), and None
\* in owner, name and internal_name is written "None".
Slots == {"owner", "name", "internal_name", "default", "constant", "readonly",
          "allow_None", "deep_copy"}

\* The slots as the assignments of Parameter.__init__ leave them: name and
\* owner None, allow_None true for a None default, deep_copy through its
\* setter.
ParameterSlots(default, constant, readonly, allow_None, deep_copy) ==
  [assigned |-> Slots,
   owner |-> "None", name |-> "None", internal_name |-> "None",
   default |-> default, constant |-> constant, readonly |-> readonly,
   allow_None |-> (default = NoneVal \/ allow_None),
   deep_copy |-> IF readonly THEN FALSE ELSE deep_copy \/ constant]

\* The callables given to an `attribute` descriptor as validator: plain
\* functions taking 0, 1, 2 and 3 arguments, and "nf", a callable object
\* that is no function.  NoFunction stands for None.
Functions == {"f0", "f1", "f2", "f3", "nf"}
NoFunction == "None"
Arity(f) == CASE f = "f0" -> 0 [] f = "f1" -> 1 [] f = "f2" -> 2 [] f = "f3" -> 3
              [] OTHER -> 1

\* No state dictionary, no restored object: the entries of an instance
\* __dict__ that are modelled, and whether there is one.
NoState == [made |-> FALSE, initialized |-> FALSE,
            store |-> [p \in Params |-> Absent],
            param_watchers |-> [p \in Params |-> <<>>]]

\* The slots that hold a boolean, and a watcher of the slot `constant`
BoolSlots == {"constant", "readonly", "allow_None", "deep_copy"}
SlotWatcher == [Watcher("sw", FALSE, <<"y">>, FALSE, 0) EXCEPT !.what = "constant"]

\* The Parameter object of y once bound: owner the class C, name 'y', and
\* in its `watchers` slot one watcher registered for `constant`.
BoundSlots ==
  [assigned |-> Slots \cup {"watchers"},
   owner |-> "C", name |-> "y", internal_name |-> "_y_param_value",
   default |-> 0, constant |-> FALSE, readonly |-> FALSE,
   allow_None |-> FALSE, deep_copy |-> FALSE,
   watchers |-> [sl \in BoolSlots |-> IF sl = "constant" THEN <<SlotWatcher>> ELSE <<>>]]

\* allow_None of the declared parameters (none is declared with
\* allow_None=True).
AllowNone(p) == Default(p) = NoneVal

\* Everything but the history: the instance, its class and the Parameter
\* object as construction leaves them.
InitState ==
  /\ class_dict = DeclaredDict
  /\ params_cache = NoCache
  /\ pobj = ParameterSlots(NoneVal, FALSE, FALSE, FALSE, FALSE)
  /\ async_executor = FALSE
  /\ initialized = TRUE
  /\ store = [p \in Params |-> Absent]
  /\ BATCH_WATCH = FALSE
  /\ TRIGGER = FALSE
  /\ events = <<>>
  /\ watchers = <<>>
  /\ registered = InitialWatchers
  /\ scopes = <<>>
  /\ fresh = NoFresh
  /\ invoked = <<>>
  /\ exc = NoExc
  /\ written = <<>>
  /\ member_cls = [p \in MemberParams |-> Absent]
  /\ member_inst = [i \in MInsts |-> [p \in MemberParams |-> Absent]]
  /\ share = FALSE
  /\ shared_cache = EmptyCache
  /\ share_depth = 0
  /\ copies = 0
  /\ inscope = {}
  /\ bobj = BoundSlots
  /\ captured = NoState
  /\ restored = NoState
  /\ prop_fval = NoFunction
  /\ len_signature = [f \in Functions |-> 0]
  /\ attr_value = NoneVal
  /\ calls = <<>>

Init == InitState /\ last = Op("start")

\* obj.p (via = "instance") or C.p (via = "class")
GetAttr(via, p) ==
  /\ \E r \in {Parameter_get(via = "instance", p)} :
       /\ exc' = r.exc
       /\ last' = [Op("get") EXCEPT !.p = p, !.v = r.val, !.via = via]
  /\ invoked' = <<>>
  /\ UNCHANGED <<extVars, clsVars, pobj, async_executor, initialized, store, registered, fresh, written, dispVars>>

\* ------------------------------------------------------ Parameter.__setattr__
\* getattr(self, 'name', None) is truthy
NameSet(o) == "name" \in o.assigned /\ o.name \notin {"None", ""}

\* Parameter.__setattr__(attribute, value) on object o: assigning `name`
\* raises, and so does assigning anything that differs from the name once
\* a name is set; deep_copy goes through its property setter, which reads
\* readonly and constant; any other slot is stored.
Parameter_setattr(o, attribute, value) ==
  IF attribute = "name" \/ NameSet(o)
    THEN [exc |-> Raise("AttributeError", 1031), o |-> o]
  ELSE IF attribute = "deep_copy"
    THEN IF "readonly" \notin o.assigned
           THEN [exc |-> Raise("AttributeError", 1024), o |-> o]
         ELSE IF ~o.readonly /\ ~value /\ "constant" \notin o.assigned
           THEN [exc |-> Raise("AttributeError", 1027), o |-> o]
         ELSE [exc |-> NoExc,
               o |-> [o EXCEPT !.deep_copy =
                                 IF o.readonly THEN FALSE ELSE value \/ o.constant,
                               !.assigned = @ \cup {"deep_copy"}]]
  ELSE [exc |-> NoExc,
        o |-> [o EXCEPT ![attribute] = value, !.assigned = @ \cup {attribute}]]

\* pobj.<slot> = value
SetSlot(slot, value) ==
  /\ \E r \in {Parameter_setattr(pobj, slot, value)} :
       /\ pobj' = r.o
       /\ exc' = r.exc
  /\ invoked' = <<>>
  /\ last' = [Op("set_slot") EXCEPT !.p = slot, !.v = value]
  /\ UNCHANGED <<extVars, clsVars, async_executor, initialized, store, registered, fresh, written, dispVars>>

\* Parameter.__init__ on a new object: `self.owner = None` is stored, then
\* `self.name = None` raises in __setattr__, and no other slot is assigned.
Parameter_init(default, constant, readonly, allow_None, deep_copy) ==
  [exc |-> Raise("AttributeError", 1031),
   o |-> [assigned |-> {"owner"},
          owner |-> "None", name |-> "None", internal_name |-> "None",
          default |-> NoneVal, constant |-> FALSE, readonly |-> FALSE,
          allow_None |-> FALSE, deep_copy |-> FALSE]]

\* pobj = Parameter(default, constant=..., readonly=..., allow_None=..., deep_copy=...)
ParamInit(default, constant, readonly, allow_None, deep_copy) ==
  /\ \E r \in {Parameter_init(default, constant, readonly, allow_None, deep_copy)} :
       /\ pobj' = r.o
       /\ exc' = r.exc
  /\ invoked' = <<>>
  /\ last' = [Op("param_init") EXCEPT
                 !.v = default,
                 !.flags = <<constant, readonly, allow_None, deep_copy>>]
  /\ UNCHANGED <<extVars, clsVars, async_executor, initialized, store, registered, fresh, written, dispVars>>

\* Parameter.__set_name__(owner, attrib_name): a name already set is a
\* conflict; otherwise `self.name = attrib_name` goes to __setattr__, which
\* refuses every assignment to name.
set_name(o, owner, attrib_name) ==
  IF "name" \notin o.assigned THEN [exc |-> Raise("AttributeError", 964), o |-> o]
  ELSE IF o.name # "None" THEN [exc |-> Raise("AttributeError", 965), o |-> o]
  ELSE [exc |-> Parameter_setattr(o, "name", attrib_name).exc, o |-> o]

\* pobj.__set_name__(owner, attrib_name)
SetName(owner, attrib_name) ==
  /\ \E r \in {set_name(pobj, owner, attrib_name)} :
       /\ pobj' = r.o
       /\ exc' = r.exc
  /\ invoked' = <<>>
  /\ last' = [Op("set_name") EXCEPT !.p = attrib_name, !.old = pobj.name]
  /\ UNCHANGED <<extVars, clsVars, async_executor, initialized, store, registered, fresh, written, dispVars>>

\* ParameterizedMetaclass._initialize_parameter(param_name, param):
\* setattr(param, 'owner', mcs)
initialize_parameter(o, owner) == Parameter_setattr(o, "owner", owner)

InitializeParameter(owner) ==
  /\ \E r \in {initialize_parameter(pobj, owner)} :
       /\ pobj' = r.o
       /\ exc' = r.exc
  /\ invoked' = <<>>
  /\ last' = [Op("initialize_parameter") EXCEPT !.p = owner]
  /\ UNCHANGED <<extVars, clsVars, async_executor, initialized, store, registered, fresh, written, dispVars>>

NextParam ==
  \/ \E slot \in {"readonly", "constant", "deep_copy", "allow_None"},
         value \in BOOLEAN : SetSlot(slot, value)
  \/ \E default \in {NoneVal, 0}, constant, readonly, allow_None, deep_copy \in BOOLEAN :
       ParamInit(default, constant, readonly, allow_None, deep_copy)
  \/ \E owner \in {"C", "D"}, attrib_name \in {"a", "b"} : SetName(owner, attrib_name)
  \/ \E owner \in {"C", "D"} : InitializeParameter(owner)

\* One Parameter object: construction, binding and slot assignment.
SpecParam == Init /\ [][NextParam]_vars

\* ---------------------------------------------------------- Parameter.__set__
\* The constant check of __set__ lets the write through unconditionally when
\* the default is None and the owner holds nothing (or None) yet.
ConstantFree(p) == Default(p) = NoneVal /\ store[p] \in {Absent, NoneVal}

\* Parameter.__set__(obj, val) for the instance (no instance parameter
\* shadows the class parameter, so instance_descriptor passes the call on):
\* the exception raised and the new __dict__.
Parameter_set(p, v) ==
  IF ReadOnly(p) THEN [exc |-> Raise("TypeError", 1108), store |-> store]
  ELSE IF Constant(p) /\ ~ConstantFree(p) /\ v # InstGet(p)
    THEN [exc |-> Raise("TypeError", 1121), store |-> store]
  ELSE \* the value is stored; then issubclass(owner, ...) is evaluated with
       \* the instance as its first argument, which raises TypeError.  The
       \* dispatch to watchers that followed is commented out.
       [exc |-> Raise("TypeError", 1130), store |-> [store EXCEPT ![p] = v]]

\* obj.p = v
SetAttr(p, v) ==
  /\ \E r \in {Parameter_set(p, v)} :
       /\ store' = r.store
       /\ exc' = r.exc
  /\ invoked' = <<>>
  /\ scopes # <<>> => Len(written) < MaxWrites
  /\ written' = IF scopes # <<>> THEN Append(written, [p |-> p, v |-> v]) ELSE <<>>
  /\ last' = [Op("set") EXCEPT !.p = p, !.v = v, !.old = InstGet(p)]
  /\ UNCHANGED <<extVars, clsVars, pobj, async_executor, initialized, registered, fresh, dispVars>>

\* ----------------------------------------- ParameterizedMetaclass.__setattr__
\* get_param_descriptor returns a pair on every path, and __setattr__ unpacks
\* it into one target: ValueError, before anything is set.
get_param_descriptor(name) ==
  IF name \in Params THEN <<name, "C">> ELSE <<NoneVal, NoneVal>>

\* Parameter.__set__(mcs, val) with the class as owner: the checks run
\* against the class __dict__, which holds no internal name, and the store
\* `owner.__dict__[...] = val` fails on the class's mappingproxy.
Parameter_set_class(p, v) ==
  IF ReadOnly(p) THEN Raise("TypeError", 1108)
  ELSE IF Constant(p) /\ Default(p) # NoneVal /\ v # Default(p)
    THEN Raise("TypeError", 1121)
  ELSE Raise("TypeError", 1126)

Metaclass_setattr(name, v) ==
  IF Len(get_param_descriptor(name)) # 1
    THEN [exc |-> Raise("ValueError", 2480), store |-> store]
  ELSE IF name \in Params
    THEN [exc |-> Parameter_set_class(name, v), store |-> store]
  ELSE [exc |-> NoExc, store |-> store]

\* ------------------------------------------------- ClassParameters.objects
\* The dictionary objects() builds from the class hierarchy: for each name
\* the entry of the most specific class that holds one.
BuildParamdict(cd, cls) ==
  [n \in AttrNames |->
     LET cl == classlist(cls)
         holders == {i \in 1..Len(cl) : cd[cl[i]][n] # NoParam}
     IN IF holders = {} THEN NoParam
        ELSE cd[cl[CHOOSE i \in holders : \A j \in holders : j <= i]][n]]

CacheName(cls) == "_" \o cls \o "__params"

\* objects(): the cached dictionary when the class has one; otherwise the
\* dictionary is built and stored with setattr on the class, which goes
\* through ParameterizedMetaclass.__setattr__.
ClassParameters_objects(cls) ==
  IF params_cache[cls] # <<>>
    THEN [exc |-> NoExc, ret |-> params_cache[cls][1], cache |-> params_cache]
  ELSE IF Metaclass_setattr(CacheName(cls), NoneVal).exc # NoExc
    THEN [exc |-> Raise(Metaclass_setattr(CacheName(cls), NoneVal).exc.type, 1495),
          ret |-> NoDict, cache |-> params_cache]
  ELSE [exc |-> NoExc, ret |-> BuildParamdict(class_dict, cls),
        cache |-> [params_cache EXCEPT ![cls] = <<BuildParamdict(class_dict, cls)>>]]

\* cls.param.objects()
Objects(cls) ==
  /\ \E r \in {ClassParameters_objects(cls)} :
       /\ params_cache' = r.cache
       /\ exc' = r.exc
       /\ last' = [Op("objects") EXCEPT !.cls = cls, !.ret = r.ret]
  /\ invoked' = <<>>
  /\ UNCHANGED <<extVars, class_dict, pobj, async_executor, initialized, store, registered, fresh, written, dispVars>>

\* obj._instance__params: the empty dictionary Parameterized.__init__
\* assigns; nothing adds an entry to it.
InstanceParams == NoDict

\* InstanceParameters.objects(existing) of obj.param.  With existing false
\* every entry is read back as self.owner_inst.param[k], which is
\* objects()[k] with existing true.
MergeInstanceParams(pdict) ==
  IF initialized /\ InstanceParams # NoDict
    THEN [n \in AttrNames |-> IF InstanceParams[n] # NoParam
                                THEN InstanceParams[n] ELSE pdict[n]]
    ELSE pdict

InstanceParameters_objects(existing) ==
  IF ClassParameters_objects("C").exc # NoExc
    THEN [exc |-> Raise(ClassParameters_objects("C").exc.type, 1756),
          ret |-> NoDict, cache |-> params_cache]
  ELSE [exc |-> NoExc, ret |-> MergeInstanceParams(ClassParameters_objects("C").ret),
        cache |-> ClassParameters_objects("C").cache]

\* obj.param.objects(existing)
InstObjects(existing) ==
  /\ \E r \in {InstanceParameters_objects(existing)} :
       /\ params_cache' = r.cache
       /\ exc' = r.exc
       /\ last' = [Op("inst_objects") EXCEPT !.cls = "C", !.flag = existing,
                                             !.ret = r.ret]
  /\ invoked' = <<>>
  /\ UNCHANGED <<extVars, class_dict, pobj, async_executor, initialized, store, registered, fresh, written, dispVars>>

\* ClassParameters.__getitem__(key) of obj.param: objects()[key].  The
\* exception of the lookup, NoExc when it returns.
Parameters_getitem(key) ==
  IF InstanceParameters_objects(TRUE).exc # NoExc
    THEN Raise(InstanceParameters_objects(TRUE).exc.type, 1446)
  ELSE IF key \notin AttrNames \/ InstanceParameters_objects(TRUE).ret[key] = NoParam
    THEN Raise("KeyError", 1446)
  ELSE NoExc

\* ClassParameters.__getattr__(attr), reached for a name that is no
\* attribute of obj.param: a KeyError of the lookup becomes AttributeError,
\* any other exception passes through.
Parameters_getattr(attr) ==
  IF Parameters_getitem(attr) = NoExc THEN NoExc
  ELSE IF Parameters_getitem(attr).type = "KeyError" THEN Raise("AttributeError", 1455)
  ELSE Raise(Parameters_getitem(attr).type, 1453)

\* `self_.<attr>` read at line l of a method of obj.param, for the names
\* self, cls and self_or_cls: InstanceParameters assigns owner_cls,
\* owner_inst and _parameters_state only, so the name goes to __getattr__.
ReadVia(attr, l) == Raise(Parameters_getattr(attr).type, l)

\* ClassParameters.__contains__(param): `param in list(self)`, and
\* __iter__ walks objects().
Parameters_contains(name) ==
  IF InstanceParameters_objects(TRUE).exc # NoExc
    THEN [exc |-> Raise(InstanceParameters_objects(TRUE).exc.type, 1472), ret |-> FALSE]
  ELSE [exc |-> NoExc,
        ret |-> name \in AttrNames /\ InstanceParameters_objects(TRUE).ret[name] # NoParam]

\* ------------------------------------------- ClassParameters.add_parameter
\* setattr(self.owner_cls, param_name, param_obj) goes through
\* ParameterizedMetaclass.__setattr__; the next line names `cls`, which is
\* not defined in the method; the delattr after it removes the cache of
\* owner_cls only.
add_parameter(cls, param_name) ==
    IF Metaclass_setattr(param_name, NoneVal).exc # NoExc
      THEN [exc |-> Raise(Metaclass_setattr(param_name, NoneVal).exc.type, 1512),
            class_dict |-> class_dict,
            cache |-> params_cache]
    ELSE [exc |-> Raise("NameError", 1513),
          class_dict |-> [class_dict EXCEPT ![cls][param_name] = NewParam],
          cache |-> params_cache]

\* cls.param.add_parameter(param_name, pobj)
AddParameter(cls, param_name) ==
  /\ \E r \in {add_parameter(cls, param_name)} :
       /\ class_dict' = r.class_dict
       /\ params_cache' = r.cache
       /\ exc' = r.exc
  /\ invoked' = <<>>
  /\ last' = [Op("add_parameter") EXCEPT !.cls = cls, !.p = param_name]
  /\ UNCHANGED <<extVars, pobj, async_executor, initialized, store, registered, fresh, written, dispVars>>

NextClass ==
  \/ NextParam
  \/ \E cls \in Classes : Objects(cls)
  \/ \E existing \in BOOLEAN : InstObjects(existing)
  \/ \E cls \in Classes, param_name \in AttrNames : AddParameter(cls, param_name)

SpecClass == Init /\ [][NextClass]_vars

\* C.p = v
ClassSetAttr(name, v) ==
  /\ \E r \in {Metaclass_setattr(name, v)} :
       /\ store' = r.store
       /\ exc' = r.exc
  /\ invoked' = <<>>
  /\ last' = [Op("classset") EXCEPT !.p = name, !.v = v]
  /\ UNCHANGED <<extVars, clsVars, pobj, async_executor, initialized, registered, fresh, written, dispVars>>

\* ------------------------------------------ InstanceParameters._setup_params
\* copy.deepcopy of an immutable value (None, a number) is the value
\* itself; of a list, a new list object.
DeepCopyOf(v) == IF v = ListDefault THEN ListCopy ELSE v

\* _deep_copy_param for every parameter with deep_copy (shared_parameters
\* is off): the copy of the default goes into obj.__dict__.
DeepCopied(st) ==
  [p \in Params |-> IF DeepCopy(p) /\ p # "name" THEN DeepCopyOf(Default(p))
                    ELSE st[p]]

\* kw is the sequence of keyword arguments, <<>> or <<[k, v]>>.  The
\* parameters to copy are collected from class_.param.objects(); an
\* exception of that call leaves before anything is copied.  After the
\* copies the first keyword is looked up with
\* `desc, = get_param_descriptor(name)`, which raises ValueError.
setup_params(kw) ==
  IF ClassParameters_objects("C").exc # NoExc
    THEN [exc |-> Raise(ClassParameters_objects("C").exc.type, 1560), store |-> store]
    ELSE IF kw # <<>> /\ Len(get_param_descriptor(kw[1].k)) # 1
      THEN [exc |-> Raise("ValueError", 1570), store |-> DeepCopied(store)]
    ELSE [exc |-> NoExc, store |-> DeepCopied(store)]

Keywords == {<<>>} \cup {<<[k |-> k, v |-> v]>> : k \in Params \cup {UnknownName}, v \in Values}

\* obj.param._setup_params(**kw)
SetupParams(kw) ==
  /\ \E r \in {setup_params(kw)} :
       /\ store' = r.store
       /\ exc' = r.exc
  /\ invoked' = <<>>
  /\ last' = [Op("setup") EXCEPT !.p = IF kw = <<>> THEN "-" ELSE kw[1].k,
                                 !.v = IF kw = <<>> THEN Absent ELSE kw[1].v]
  /\ UNCHANGED <<extVars, clsVars, pobj, async_executor, initialized, registered, fresh, written, dispVars>>

\* ---------------------------------------------------- Parameterized.__init__
\* C(**kw) on a new object: initialized is set False, the state dictionaries
\* are created, and InstanceParameters(self.__class__, self=self) raises
\* TypeError (InstanceParameters.__init__ has no parameter to take `self=`),
\* so _setup_params is not reached and initialized stays False.
Parameterized_init(kw) ==
  [exc |-> Raise("TypeError", 2783),
   obj |-> [made |-> TRUE, initialized |-> FALSE, container |-> FALSE,
            store |-> [p \in Params |-> Absent], extra |-> {},
            warned |-> FALSE]]

\* In the new object: store is its __dict__ by parameter, extra the names
\* of other attributes set from keywords, warned whether a warning was
\* logged.  What a read of p through the new object gives:
FreshGet(p) == IF fresh.store[p] # Absent THEN fresh.store[p] ELSE Default(p)

Construct(kw) ==
  /\ \E r \in {Parameterized_init(kw)} :
       /\ fresh' = r.obj
       /\ exc' = r.exc
  /\ invoked' = <<>>
  /\ last' = [Op("construct") EXCEPT !.p = IF kw = <<>> THEN "-" ELSE kw[1].k,
                                     !.v = IF kw = <<>> THEN Absent ELSE kw[1].v]
  /\ UNCHANGED <<extVars, clsVars, pobj, async_executor, initialized, store, registered, written, dispVars>>

\* ------------------------------------------------------------ Comparator
\* Comparator.is_equal: numbers and None compare by ==; an object of a type
\* with no registered equality compares unequal to everything, itself
\* included; two lists compare by length and items, and the default of m
\* and a copy of it are both empty.
Lists == {ListDefault, ListCopy}
is_equal(a, b) ==
  IF a = ObjVal \/ b = ObjVal THEN FALSE
  ELSE IF a \in Lists /\ b \in Lists THEN TRUE
  ELSE a = b

\* ------------------------------------------ InstanceParameters.values
\* The pairs of get_param_values as a dictionary: Absent for a name that
\* is left out.
NoValues == [p \in Params |-> Absent]

\* get_param_values(onlychanged): the first statement reads
\* self_.self_or_cls, which goes to __getattr__; were None returned for
\* it, the loop header would read None.param.
get_param_values(onlychanged) ==
  IF Parameters_getattr("self_or_cls") # NoExc
    THEN [exc |-> ReadVia("self_or_cls", 1949), ret |-> NoValues]
  ELSE [exc |-> Raise("AttributeError", 1951), ret |-> NoValues]

\* values(onlychanged): dict(self_.get_param_values(onlychanged))
values(onlychanged) ==
  LET r == get_param_values(onlychanged) IN
    [exc |-> IF r.exc = NoExc THEN NoExc ELSE Raise(r.exc.type, 1972),
     ret |-> r.ret]

\* obj.param.values(onlychanged)
ParamValues(onlychanged) ==
  /\ \E r \in {values(onlychanged)} :
       /\ exc' = r.exc
       /\ last' = [Op("values") EXCEPT !.flag = onlychanged, !.vals = r.ret]
  /\ invoked' = <<>>
  /\ UNCHANGED <<extVars, clsVars, pobj, async_executor, initialized, store, registered, fresh, written, dispVars>>

\* ------------------------------------------------ _parse_dependency_spec
\* A string is the sequence of its characters.
Chars == {"a", "b", ".", ":", " "}
Specs == UNION {[1..k -> Chars] : k \in 0..MaxSpecLen}

\* None and 'value' as returned in the tuple.
NoneStr == <<"None">>
ValueStr == <<"v", "a", "l", "u", "e">>

\* str.count(ch) and str.strip()
count(str, ch) == Cardinality({i \in 1..Len(str) : str[i] = ch})
strip(str) ==
  IF \A i \in 1..Len(str) : str[i] = " " THEN <<>>
  ELSE SubSeq(str,
              CHOOSE i \in 1..Len(str) :
                str[i] # " " /\ \A j \in 1..(i - 1) : str[j] = " ",
              CHOOSE i \in 1..Len(str) :
                str[i] # " " /\ \A j \in (i + 1)..Len(str) : str[j] = " ")

\* Index of the first and of the last ch in str, 0 when there is none.
FirstIndexOf(str, ch) ==
  IF count(str, ch) = 0 THEN 0
  ELSE CHOOSE i \in 1..Len(str) : str[i] = ch /\ \A j \in 1..(i - 1) : str[j] # ch
LastIndexOf(str, ch) ==
  IF count(str, ch) = 0 THEN 0
  ELSE CHOOSE i \in 1..Len(str) : str[i] = ch /\ \A j \in (i + 1)..Len(str) : str[j] # ch

\* re.match("(?P<path>[^:]*):?(?P<what>.*)", spec): path runs up to the
\* first ':', what is all that follows it.
match_path_what(str) ==
  IF FirstIndexOf(str, ":") = 0 THEN [path |-> str, what |-> <<>>]
  ELSE [path |-> SubSeq(str, 1, FirstIndexOf(str, ":") - 1),
        what |-> SubSeq(str, FirstIndexOf(str, ":") + 1, Len(str))]

\* A match whose first group is not greedy: it stops at the first '.'.
match_obj_attr_lazy(path) ==
  [obj |-> SubSeq(path, 1, FirstIndexOf(path, ".") - 1),
   attr |-> SubSeq(path, FirstIndexOf(path, ".") + 1, Len(path))]

\* re.match(r"(?P<obj>.*)(\.)(?P<attr>.*)", path): the first group is
\* greedy, so the '.' matched is the last one of path.
match_obj_attr(path) ==
  [obj |-> SubSeq(path, 1, LastIndexOf(path, ".") - 1),
   attr |-> SubSeq(path, LastIndexOf(path, ".") + 1, Len(path))]

\* _parse_dependency_spec(spec): (obj or None, attr, what or 'value')
parse_dependency_spec(str) ==
  IF ~(count(str, ":") <= 1)
    THEN [exc |-> Raise("AssertionError", 498), ret |-> <<>>]
  ELSE LET m == match_path_what(strip(str))
           n == match_obj_attr(<<".">> \o m.path)
       IN [exc |-> NoExc,
           ret |-> <<IF n.obj = <<>> THEN NoneStr ELSE n.obj,
                     n.attr,
                     IF m.what = <<>> THEN ValueStr ELSE m.what>>]

\* _parse_dependency_spec applied to the spec drawn
Parse ==
  /\ last.op = "spec"
  /\ \E r \in {parse_dependency_spec(last.spec)} :
       /\ exc' = r.exc
       /\ last' = [last EXCEPT !.op = "parse", !.parsed = r.ret]
  /\ invoked' = <<>>
  /\ UNCHANGED <<extVars, clsVars, pobj, async_executor, initialized, store, registered, fresh, written, dispVars>>

InitParse ==
  /\ InitState
  /\ \E str \in Specs : last = [Op("spec") EXCEPT !.spec = str]

NextParse == Parse

\* _parse_dependency_spec applied to any string of up to MaxSpecLen
\* characters.
SpecParse == InitParse /\ [][NextParse]_vars

\* -------------------------------------------------------- serialization
\* The exception of reading `name` from the param namespace: that of the
\* instance reads self_.self_or_cls in the first statement of
\* serialize_value (line l); that of the class is a ClassParameters, which
\* defines neither method, so the name goes to __getattr__.
NamespaceRead(via, l) ==
  IF via = "instance" THEN ReadVia("self_or_cls", l)
  ELSE IF ClassParameters_objects("C").exc # NoExc
    THEN Raise(ClassParameters_objects("C").exc.type, 1453)
  ELSE Raise("AttributeError", 1455)

\* param.serialize_value(pname) and param.deserialize_value(pname, value)
\* through the instance or the class: the call raises before the
\* serializer is reached.
serialize_value(via, pname) == [exc |-> NamespaceRead(via, 1907), ret |-> Absent]
deserialize_value(via, pname, value) == [exc |-> NamespaceRead(via, 1920), ret |-> Absent]

\* deserialize_value(pname, serialize_value(pname))
round_trip(via, pname) ==
  IF serialize_value(via, pname).exc # NoExc
    THEN serialize_value(via, pname)
    ELSE deserialize_value(via, pname, serialize_value(via, pname).ret)

\* TestSerialization._test_serialize(obj, pname), with obj the instance or
\* the class
RoundTrip(via, pname) ==
  /\ \E r \in {round_trip(via, pname)} :
       /\ exc' = r.exc
       /\ last' = [Op("round_trip") EXCEPT !.via = via, !.p = pname, !.v = r.ret]
  /\ invoked' = <<>>
  /\ UNCHANGED <<extVars, clsVars, pobj, async_executor, initialized, store, registered, fresh, written, dispVars>>

NextSerial ==
  \/ \E p \in Params, v \in Values : SetAttr(p, v)
  \/ \E via \in {"instance", "class"}, p \in Params : RoundTrip(via, p)

\* Serialization of the parameters' current values.
SpecSerial == Init /\ [][NextSerial]_vars

\* obj1 == obj2 of Python for two values that are numbers, strings, bytes,
\* None or dates (operator.eq): numbers of any numeric type compare by
\* value, the others are equal when of one type and the same.
Numeric == {"int", "float", "bool"}
PyEq(obj1, obj2) ==
  \/ obj1.t \in Numeric /\ obj2.t \in Numeric /\ obj1.n = obj2.n
  \/ /\ obj1.t = obj2.t
     /\ obj1.t \in {"str", "bytes", "NoneType", "date", "datetime"}
     /\ obj1.n = obj2.n

\* Comparator.equalities, in order, and isinstance(obj, eq_type); bool is
\* a Number and datetime a date.
equalities == <<"Number", "str", "bytes", "NoneType", "datetime", "date">>
IsInstance(obj, eq_type) ==
  CASE eq_type = "Number" -> obj.t \in Numeric
    [] eq_type = "date" -> obj.t \in {"date", "datetime"}
    [] OTHER -> obj.t = eq_type

RECURSIVE Comparator_is_equal(_, _)
RECURSIVE compare_iterator(_, _)
RECURSIVE compare_mapping(_, _)

\* A compare_iterator that does not look at the types of its arguments.
compare_iterator_untyped(obj1, obj2) ==
  /\ Len(obj1.items) = Len(obj2.items)
  /\ \A i \in 1..Len(obj1.items) : Comparator_is_equal(obj1.items[i], obj2.items[i])

\* Comparator.compare_iterator(obj1, obj2)
compare_iterator(obj1, obj2) ==
  IF obj1.t # obj2.t \/ Len(obj1.items) # Len(obj2.items) THEN FALSE
  ELSE \A i \in 1..Len(obj1.items) : Comparator_is_equal(obj1.items[i], obj2.items[i])

\* Comparator.compare_mapping(obj1, obj2): every key of obj1 is a key of
\* obj2 with an is_equal value.
compare_mapping(obj1, obj2) ==
  IF obj1.t # obj2.t \/ Len(obj1.items) # Len(obj2.items) THEN FALSE
  ELSE \A i \in 1..Len(obj1.items) :
         \E j \in 1..Len(obj2.items) :
           /\ obj2.items[j].n = obj1.items[i].n
           /\ Comparator_is_equal(obj1.items[i].items[1], obj2.items[j].items[1])

\* Comparator.is_equal(obj1, obj2): the first registered type both are
\* instances of decides by ==; otherwise the type of obj2 picks the
\* comparison.
Comparator_is_equal(obj1, obj2) ==
  IF \E k \in 1..Len(equalities) :
       IsInstance(obj1, equalities[k]) /\ IsInstance(obj2, equalities[k])
    THEN PyEq(obj1, obj2)
  ELSE IF obj2.t \in {"list", "set", "tuple"} THEN compare_iterator(obj1, obj2)
  ELSE IF obj2.t = "dict" THEN compare_mapping(obj1, obj2)
  ELSE FALSE

\* The values the Comparator is given: scalars of every registered type,
\* two opaque objects, the lists, tuples and sets of up to MaxItems
\* elements, lists of one such list, and the dicts of up to MaxItems items.
SeqsUpTo(S, n) == UNION {[1..k -> S] : k \in 0..n}
PyScalars ==
  {Py("int", 0, <<>>), Py("int", 1, <<>>), Py("float", 1, <<>>), Py("bool", 1, <<>>),
   Py("str", 0, <<>>), Py("str", 1, <<>>), Py("bytes", 0, <<>>), PyNone,
   Py("date", 0, <<>>), Py("datetime", 0, <<>>)}
PyObjects == {Py("object", 0, <<>>), Py("object", 1, <<>>)}
PyElems ==
  {Py("int", 0, <<>>), Py("int", 1, <<>>), Py("float", 1, <<>>), Py("object", 0, <<>>)}
PySequences ==
  {Py(t, 0, items) : t \in {"list", "tuple", "set"}, items \in SeqsUpTo(PyElems, MaxItems)}
PyNested == {Py("list", 0, <<Py("list", 0, items)>>) : items \in SeqsUpTo(PyElems, 1)}
PyItems == {Py("item", k, <<v>>) : k \in 0..1, v \in PyElems}
PyDicts ==
  {Py("dict", 0, items) :
     items \in {s \in SeqsUpTo(PyItems, MaxItems) :
                  \A i, j \in 1..Len(s) : i # j => s[i].n # s[j].n}}
PyValues == PyScalars \cup PyObjects \cup PySequences \cup PyNested \cup PyDicts

\* Comparator.is_equal(obj1, obj2) applied to the two values drawn
IsEqual ==
  /\ last.op = "input"
  /\ last' = [last EXCEPT !.op = "is_equal",
                          !.res = Comparator_is_equal(last.obj1, last.obj2)]
  /\ exc' = NoExc
  /\ invoked' = <<>>
  /\ UNCHANGED <<extVars, clsVars, pobj, async_executor, initialized, store, registered, fresh, written, dispVars>>

\* A dispatcher with no skip rule: every event counts as a change.
changed_always(e) == TRUE

\* ClassParameters._changed(event)
changed(e) == ~is_equal(e.old, e.new)

\* A dispatcher that delivers events as they were created, type unset.
event_type_unset(w, e, triggered) == e

\* InstanceParameters._update_event_type(watcher, event, triggered)
update_event_type(w, e, triggered) ==
  [e EXCEPT !.type = IF triggered THEN "triggered"
                     ELSE IF w.onlychanged THEN "changed" ELSE "set"]

\* ------------------------------ InstanceParameters._batch_call_watchers
\* The loop condition reads self_.self_or_cls.  InstanceParameters assigns
\* owner_cls, owner_inst and _parameters_state only, so the name goes to
\* ClassParameters.__getattr__, which looks it up among the parameters and
\* raises: the drain stops before its first round and the buffers keep
\* their contents.
drain ==
  [exc |-> ReadVia("self_or_cls", 1842), events |-> events,
   watchers |-> watchers, invoked |-> <<>>]

\* -------------------------------------- InstanceParameters._call_watcher
InQueue(w) == \E i \in 1..Len(watchers) : watchers[i].id = w.id

\* A dispatcher that calls every callback itself, coroutine or not.
execute_watcher_inline(w, args, fnRaises, depth) ==
  [exc |-> IF fnRaises THEN Raise("CallbackError", 1817) ELSE NoExc,
   invoked |-> <<[w |-> w, args |-> args, via |-> "inline", depth |-> depth]>>]

\* ------------------------------------ InstanceParameters._execute_watcher
\* A coroutine function is handed to async_executor, bound to its
\* arguments, or RuntimeError is raised when no executor is set; any other
\* function is called.  depth is 1 for a callback run by the operation
\* itself and 2 for one run while another callback is running.
execute_watcher(w, args, fnRaises, depth) ==
  IF w.coroutine
    THEN IF ~async_executor
           THEN [exc |-> Raise("RuntimeError", 1810), invoked |-> <<>>]
           ELSE [exc |-> NoExc,
                 invoked |-> <<[w |-> w, args |-> args, via |-> "executor",
                                depth |-> depth]>>]
    ELSE [exc |-> IF fnRaises THEN Raise("CallbackError", 1817) ELSE NoExc,
          invoked |-> <<[w |-> w, args |-> args, via |-> "inline",
                         depth |-> depth]>>]

\* The watcher is skipped, or the event is buffered, or the callback runs
\* inside _batch_call_watchers(obj, enable=w.queued, run=False), which
\* restores the batching flag when the callback returns or raises.
call_watcher(w, e, fnRaises) ==
  IF ~TRIGGER /\ w.onlychanged /\ ~changed(e)
    THEN [exc |-> NoExc, events |-> events, watchers |-> watchers,
          invoked |-> <<>>]
  ELSE IF BATCH_WATCH
    THEN [exc |-> NoExc, events |-> Append(events, e),
          watchers |-> IF InQueue(w) THEN watchers ELSE Append(watchers, w),
          invoked |-> <<>>]
  ELSE LET x == execute_watcher(w, <<update_event_type(w, e, TRIGGER)>>,
                                 fnRaises, 1)
       IN [exc |-> x.exc, events |-> events, watchers |-> watchers,
           invoked |-> x.invoked]

\* _call_watcher(w, e) where the callback of w, while it runs, hands event
\* e2 for watcher w2 to _call_watcher of the same object.  Inside the
\* callback the batching flag is w.queued; when the callback returns the
\* flag is restored and, run being False, nothing is drained.
call_watcher_nested(w, e, w2, e2) ==
  IF (~TRIGGER /\ w.onlychanged /\ ~changed(e)) \/ BATCH_WATCH \/ w.coroutine
    THEN call_watcher(w, e, FALSE)
  ELSE LET outer == execute_watcher(w, <<update_event_type(w, e, TRIGGER)>>,
                                    FALSE, 1)
           inner ==
             IF ~TRIGGER /\ w2.onlychanged /\ ~changed(e2)
               THEN [events |-> events, watchers |-> watchers, invoked |-> <<>>]
             ELSE IF w.queued
               THEN [events |-> Append(events, e2),
                     watchers |-> IF InQueue(w2) THEN watchers
                                  ELSE Append(watchers, w2),
                     invoked |-> <<>>]
             ELSE [events |-> events, watchers |-> watchers,
                   invoked |-> execute_watcher(
                       w2, <<update_event_type(w2, e2, TRIGGER)>>, FALSE, 2).invoked]
       IN [exc |-> NoExc, events |-> inner.events, watchers |-> inner.watchers,
           invoked |-> outer.invoked \o inner.invoked]

\* obj.param._call_watcher(w, e) with a callback that dispatches (w2, e2)
CallWatcherNested(w, e, w2, e2) ==
  /\ Len(events) < MaxEvents
  /\ \E r \in {call_watcher_nested(w, e, w2, e2)} :
       /\ events' = r.events
       /\ watchers' = r.watchers
       /\ invoked' = r.invoked
       /\ exc' = r.exc
  /\ last' = [Op("call_nested") EXCEPT !.w = w, !.e = e, !.w2 = w2, !.e2 = e2,
                                        !.flag = BATCH_WATCH, !.evs = events]
  /\ UNCHANGED <<extVars, clsVars, pobj, async_executor, initialized, store, registered, fresh, written, BATCH_WATCH, TRIGGER, scopes>>

\* param.parameterized.async_executor = executor (or None)
SetAsyncExecutor(set) ==
  /\ async_executor' = set
  /\ invoked' = <<>>
  /\ exc' = NoExc
  /\ last' = Op("set_executor")
  /\ UNCHANGED <<extVars, clsVars, pobj, initialized, store, registered, fresh, written, dispVars>>

\* obj.param._call_watcher(w, e)
CallWatcher(w, e, fnRaises) ==
  /\ Len(events) < MaxEvents
  /\ \E r \in {call_watcher(w, e, fnRaises)} :
       /\ events' = r.events
       /\ watchers' = r.watchers
       /\ invoked' = r.invoked
       /\ exc' = r.exc
  /\ last' = [Op("call_watcher") EXCEPT !.w = w, !.e = e]
  /\ UNCHANGED <<extVars, clsVars, pobj, async_executor, initialized, store, registered, fresh, written, BATCH_WATCH, TRIGGER, scopes>>

\* ------------------------- batch_call_watchers / _batch_call_watchers
\* Entering a scope: the flag is saved in the frame and set.  The public
\* context manager is the internal one with enable=True, run=True.
Frame(kind, run) ==
  [kind |-> kind, saved |-> BATCH_WATCH, run |-> run,
   evLen |-> Len(events), wLen |-> Len(watchers),
   evs |-> IF kind = "discard" THEN events ELSE <<>>,
   ws |-> IF kind = "discard" THEN watchers ELSE <<>>,
   kept |-> FALSE]

batch_enter(enable) == enable \/ BATCH_WATCH

EnterScope(kind, enable, run) ==
  /\ Len(scopes) < MaxDepth
  /\ kind = "public" => enable /\ run
  /\ kind = "discard" => enable /\ ~run
  /\ scopes' = Append(scopes, Frame(kind, run))
  /\ BATCH_WATCH' = batch_enter(enable)
  /\ invoked' = <<>>
  /\ exc' = NoExc
  /\ written' = IF scopes = <<>> THEN <<>> ELSE written
  /\ last' = [Op("enter") EXCEPT !.via = kind]
  /\ UNCHANGED <<extVars, clsVars, pobj, async_executor, initialized, store, registered, fresh, TRIGGER, events, watchers>>

\* A scope exit that drains whenever the scope runs watchers, nested in a
\* batching scope or not.
batch_exit_unnested(frame, bodyRaises) ==
  LET d == IF frame.run THEN drain
           ELSE [exc |-> NoExc, events |-> events, watchers |-> watchers,
                 invoked |-> <<>>]
  IN [BATCH_WATCH |-> frame.saved, events |-> d.events, watchers |-> d.watchers,
      invoked |-> d.invoked,
      exc |-> IF d.exc # NoExc THEN d.exc
              ELSE IF bodyRaises THEN Raise("BodyError", 105) ELSE NoExc]

\* The finally clause: the saved flag is restored, and the buffers are
\* drained if the scope runs watchers and was not nested in a batching one.
\* An exception raised by the drain replaces the one the body raised.
batch_exit(frame, bodyRaises) ==
  LET flush == frame.run /\ ~frame.saved
      d == IF flush THEN drain
           ELSE [exc |-> NoExc, events |-> events, watchers |-> watchers,
                 invoked |-> <<>>]
  IN [BATCH_WATCH |-> frame.saved, events |-> d.events, watchers |-> d.watchers,
      invoked |-> d.invoked,
      exc |-> IF d.exc # NoExc THEN d.exc
              ELSE IF bodyRaises THEN Raise("BodyError", 105) ELSE NoExc]

\* discard_events: the finally clause restores the flag saved at entry and
\* puts back the copies of the watcher and event buffers taken at entry; an
\* exception of the body is re-raised.
discard_exit(frame, bodyRaises) ==
  [BATCH_WATCH |-> frame.saved, events |-> frame.evs, watchers |-> frame.ws,
   invoked |-> <<>>,
   exc |-> IF bodyRaises THEN Raise("BodyError", 142) ELSE NoExc]

\* The scopes left open when the innermost one is exited.  History only:
\* the scope enclosing a discard_events scope that put buffered events
\* back is marked `kept`.
Enclosing(frame) ==
  IF frame.kind = "discard" /\ frame.evs # <<>> /\ Len(scopes) > 1
    THEN [SubSeq(scopes, 1, Len(scopes) - 1) EXCEPT ![Len(scopes) - 1].kept = TRUE]
  ELSE SubSeq(scopes, 1, Len(scopes) - 1)

ExitScope(bodyRaises) ==
  /\ scopes # <<>>
  /\ LET frame == scopes[Len(scopes)]
         r == IF frame.kind = "discard" THEN discard_exit(frame, bodyRaises)
              ELSE batch_exit(frame, bodyRaises) IN
       /\ BATCH_WATCH' = r.BATCH_WATCH
       /\ events' = r.events
       /\ watchers' = r.watchers
       /\ invoked' = r.invoked
       /\ exc' = r.exc
       /\ last' = [Op("exit") EXCEPT !.frame = frame, !.raising = bodyRaises,
                                     !.evs = events, !.ws = watchers]
  /\ scopes' = Enclosing(scopes[Len(scopes)])
  /\ UNCHANGED <<extVars, clsVars, pobj, async_executor, initialized, store, registered, fresh, written, TRIGGER>>

\* ------------------------------------------- InstanceParameters.update
\* The flag is saved and set, then `self_.self_or_cls` raises as in the
\* drain; no later line runs, the one that restores the flag included.
update(kw) ==
  [exc |-> ReadVia("self_or_cls", 1705), BATCH_WATCH |-> TRUE, store |-> store]

\* obj.param.update(**kw)
Update(kw) ==
  /\ \E r \in {update(kw)} :
       /\ BATCH_WATCH' = r.BATCH_WATCH
       /\ store' = r.store
       /\ exc' = r.exc
  /\ invoked' = <<>>
  /\ last' = [Op("update") EXCEPT !.p = IF kw = <<>> THEN "-" ELSE kw[1].k,
                                  !.v = IF kw = <<>> THEN Absent ELSE kw[1].v,
                                  !.flag = BATCH_WATCH]
  /\ UNCHANGED <<extVars, clsVars, pobj, async_executor, initialized, registered, fresh, written, TRIGGER, events, watchers, scopes>>

ScopeInputs == {<<"public", TRUE, TRUE>>, <<"internal", TRUE, FALSE>>,
                <<"internal", FALSE, FALSE>>}

\* ------------------------------------------ InstanceParameters.trigger
\* The first statement reads self_.self_or_cls, which raises as in the
\* drain: no value is read, TRIGGER is not set, nothing is dispatched.
\* A trigger that fails only at its set_param call (line 1785), with the
\* buffers emptied and the flag set before it.
trigger_unrestored(names) ==
  [exc |-> Raise("ValueError", 1785), TRIGGER |-> TRUE,
   events |-> <<>>, watchers |-> <<>>, store |-> store,
   invoked |-> <<>>]

trigger(names) ==
  [exc |-> ReadVia("self_or_cls", 1773), TRIGGER |-> TRIGGER,
   events |-> events, watchers |-> watchers, store |-> store,
   invoked |-> <<>>]

\* obj.param.trigger(*names)
Trigger(names) ==
  /\ \E r \in {trigger(names)} :
       /\ TRIGGER' = r.TRIGGER
       /\ events' = r.events
       /\ watchers' = r.watchers
       /\ store' = r.store
       /\ invoked' = r.invoked
       /\ exc' = r.exc
  /\ last' = [Op("trigger") EXCEPT !.names = names, !.flag = BATCH_WATCH,
                                   !.evs = events, !.ws = watchers]
  /\ UNCHANGED <<extVars, clsVars, pobj, async_executor, initialized, registered, fresh, written, BATCH_WATCH, scopes>>

\* --------------------------------- InstanceParameters._register_watcher
\* Each name is first tested with `parameter_name not in self`, which
\* walks objects().  The method's first parameter is `self`, and its body
\* reads `self_`: past the test, for an unknown name building the
\* ValueError message raises NameError, for a declared name the test
\* `self_.self is not None` does.  Nothing is appended or removed.
register_watcher(action, w) ==
  IF w.parameter_names = <<>> THEN [exc |-> NoExc, registered |-> registered]
  ELSE IF Parameters_contains(w.parameter_names[1]).exc # NoExc
    THEN [exc |-> Raise(Parameters_contains(w.parameter_names[1]).exc.type, 2164),
          registered |-> registered]
  ELSE IF ~Parameters_contains(w.parameter_names[1]).ret
    THEN [exc |-> Raise("NameError", 2166), registered |-> registered]
  ELSE [exc |-> Raise("NameError", 2170), registered |-> registered]

\* InstanceParameters.watch(fn, names, what, onlychanged, queued,
\* precedence): the Watcher returned (NoWatcher when the call raises).
watch(id, names, oc, q, prec) ==
  IF prec < 0
    THEN [exc |-> Raise("ValueError", 2222), registered |-> registered,
          ret |-> NoWatcher]
  ELSE LET w == Watcher(id, oc, names, q, prec)
           r == register_watcher("append", w)
       IN [exc |-> r.exc, registered |-> r.registered,
           ret |-> IF r.exc = NoExc THEN w ELSE NoWatcher]

\* InstanceParameters.watch_values: after the precedence check,
\* `self_.self` is read to build the Watcher and raises.
watch_values(id, names, oc, q, prec) ==
  IF prec < 0
    THEN [exc |-> Raise("ValueError", 2250), registered |-> registered,
          ret |-> NoWatcher]
  ELSE [exc |-> ReadVia("self", 2257), registered |-> registered,
        ret |-> NoWatcher]

\* obj.param.watch(fn, names, precedence=prec)
Watch(names, oc, q, prec) ==
  /\ \E r \in {watch("w5", names, oc, q, prec)} :
       /\ registered' = r.registered
       /\ exc' = r.exc
       /\ last' = [Op("watch") EXCEPT !.names = names, !.prec = prec, !.w = r.ret]
  /\ invoked' = <<>>
  /\ UNCHANGED <<extVars, clsVars, pobj, async_executor, initialized, store, fresh, written, dispVars>>

\* obj.param.watch_values(fn, names, precedence=prec)
WatchValues(names, oc, q, prec) ==
  /\ \E r \in {watch_values("w5", names, oc, q, prec)} :
       /\ registered' = r.registered
       /\ exc' = r.exc
       /\ last' = [Op("watch_values") EXCEPT !.names = names, !.prec = prec,
                                             !.w = r.ret]
  /\ invoked' = <<>>
  /\ UNCHANGED <<extVars, clsVars, pobj, async_executor, initialized, store, fresh, written, dispVars>>

\* Names given to trigger and watch: declared, unknown, and both.
NameInputs == {<<"y">>, <<UnknownName>>, <<"y", UnknownName>>}
PrecedenceInputs == {-1, 0, 1}

NextApi ==
  \/ \E names \in NameInputs : Trigger(names)
  \/ \E names \in NameInputs, oc, q \in BOOLEAN, prec \in PrecedenceInputs :
       Watch(names, oc, q, prec)
  \/ \E names \in NameInputs, oc, q \in BOOLEAN, prec \in PrecedenceInputs :
       WatchValues(names, oc, q, prec)
  \/ \E v \in Nums : SetAttr("y", v)
  \/ EnterScope("public", TRUE, TRUE)
  \/ \E bodyRaises \in BOOLEAN : ExitScope(bodyRaises)

\* trigger, watch and watch_values on the instance's param namespace.
SpecApi == Init /\ [][NextApi]_vars

NextAttr ==
  \/ \E p \in Params, v \in Values : SetAttr(p, v)
  \/ \E via \in {"instance", "class"}, p \in Params : GetAttr(via, p)
  \/ \E p \in Params \cup {UnknownName}, v \in Values : ClassSetAttr(p, v)
  \/ \E kw \in Keywords : SetupParams(kw)
  \/ \E kw \in Keywords : Construct(kw)
  \/ \E onlychanged \in BOOLEAN : ParamValues(onlychanged)

\* Attribute access and construction.
SpecAttr == Init /\ [][NextAttr]_vars

NextWrite ==
  \/ \E v \in Values : SetAttr("y", v)
  \/ \E s \in ScopeInputs : EnterScope(s[1], s[2], s[3])
  \/ \E bodyRaises \in BOOLEAN : ExitScope(bodyRaises)

\* Writes to the watched parameter y, outside and inside batching scopes.
SpecWrite == Init /\ [][NextWrite]_vars

\* Events handed to _call_watcher for parameter y: an unchanged number, a
\* changed number, and the same opaque object as old and new.
EventInputs == {Event("y", 0, 0, "None"), Event("y", 0, 1, "None"),
                Event("y", ObjVal, ObjVal, "None")}
UpdateInputs == {<<[k |-> k, v |-> 0]>> : k \in {"y", UnknownName}}

Next ==
  \/ \E w \in Watchers, e \in EventInputs, fnRaises \in BOOLEAN :
       CallWatcher(w, e, fnRaises)
  \/ \E s \in ScopeInputs : EnterScope(s[1], s[2], s[3])
  \/ \E bodyRaises \in BOOLEAN : ExitScope(bodyRaises)
  \/ \E kw \in UpdateInputs : Update(kw)

\* Dispatch and batching scopes.
Spec == Init /\ [][Next]_vars

NextQueued ==
  \/ \E w, w2 \in {W1, W2, W3}, e, e2 \in EventInputs :
       CallWatcherNested(w, e, w2, e2)
  \/ \E s \in ScopeInputs : EnterScope(s[1], s[2], s[3])
  \/ \E bodyRaises \in BOOLEAN : ExitScope(bodyRaises)

\* Callbacks that dispatch further events while they run.
SpecQueued == Init /\ [][NextQueued]_vars

NextExec ==
  \/ \E set \in BOOLEAN : SetAsyncExecutor(set)
  \/ \E w \in {W2, W4}, e \in EventInputs, fnRaises \in BOOLEAN :
       CallWatcher(w, e, fnRaises)
  \/ \E s \in ScopeInputs : EnterScope(s[1], s[2], s[3])
  \/ \E bodyRaises \in BOOLEAN : ExitScope(bodyRaises)

\* Coroutine callbacks and the async executor.
SpecExec == Init /\ [][NextExec]_vars

\* ===================================================================== claims
\* Calls of watcher w among the callbacks the last operation ran.
CallsOf(w) == {j \in 1..Len(invoked) : invoked[j].w.id = w.id}

\* C1: for a constant parameter, constructing with P=v1 succeeds and the new
\* instance reads v1; a later set to a different value fails with TypeError
\* and leaves the value; a later set to the identical value succeeds.
C1_ConstantContract ==
  /\ (last.op = "construct" /\ last.p \in Params /\ Constant(last.p)) =>
       /\ exc = NoExc
       /\ fresh.initialized
       /\ FreshGet(last.p) = last.v
  /\ (last.op = "set" /\ Constant(last.p) /\ last.old = Default(last.p)
        /\ last.old # NoneVal /\ last.v # last.old) =>
       /\ exc.type = "TypeError"
       /\ InstGet(last.p) = last.old
  /\ (last.op = "set" /\ Constant(last.p) /\ last.v = last.old) =>
       exc = NoExc

\* C2: every set of a readonly parameter, on the instance or on the class,
\* fails and changes nothing; a get afterwards, through the instance or
\* through the class, returns the declared default.
C2_ReadonlyContract ==
  /\ \A p \in Params : ReadOnly(p) => store[p] = Absent
  /\ (last.op \in {"set", "classset"} /\ last.p \in Params /\ ReadOnly(last.p)) =>
       exc # NoExc
  /\ (last.op = "get" /\ ReadOnly(last.p)) =>
       /\ exc = NoExc
       /\ last.v = Default(last.p)

\* C3: with an onlychanged watcher registered on P of the initialized
\* instance, a write of the current value runs its callback zero times and
\* a write of a different value runs it exactly once, with one Event whose
\* old is the value before the write and whose new is the value written.
C3_OnlyChangedWatcher ==
  (last.op = "set" /\ last.p \in Params /\ initialized /\ ~BATCH_WATCH) =>
    \A i \in 1..Len(registered[last.p]) :
      LET w == registered[last.p][i] IN
        w.onlychanged =>
          /\ (last.v = last.old /\ is_equal(last.old, last.v)) => CallsOf(w) = {}
          /\ last.v # last.old =>
               /\ Cardinality(CallsOf(w)) = 1
               /\ \A j \in CallsOf(w) :
                    /\ Len(invoked[j].args) = 1
                    /\ invoked[j].args[1].name = last.p
                    /\ invoked[j].args[1].old = last.old
                    /\ invoked[j].args[1].new = last.v

\* Three writes of one parameter, to three distinct values, were made since
\* the outermost scope was entered.
ThreeDistinctWrites ==
  /\ Len(written) = 3
  /\ \A i \in 1..3 : written[i].p = written[1].p
  /\ Cardinality({written[i].v : i \in 1..3}) = 3

\* C4: three writes of one parameter to distinct values inside one
\* batching scope run no watcher while the scope is open, and the exit of
\* the scope runs each watcher of the parameter exactly once with exactly
\* one Event, whose new is the last value written.
C4_BatchedWrites ==
  /\ (scopes # <<>> /\ BATCH_WATCH) => invoked = <<>>
  /\ (last.op = "exit" /\ last.frame.kind = "public" /\ ~last.frame.saved
        /\ ~last.raising /\ ThreeDistinctWrites) =>
       \A i \in 1..Len(registered[written[1].p]) :
         LET w == registered[written[1].p][i] IN
           /\ Cardinality(CallsOf(w)) = 1
           /\ \A j \in CallsOf(w) :
                /\ Len(invoked[j].args) = 1
                /\ invoked[j].args[1].name = written[1].p
                /\ invoked[j].args[1].new = written[3].v

Flushed ==
  /\ last.op = "exit"
  /\ last.frame.run /\ ~last.frame.saved
  /\ last.evs # <<>>

\* Event ev is one watcher w watches.
Watches(w, ev) ==
  /\ ev.what = w.what
  /\ \E n \in 1..Len(w.parameter_names) : w.parameter_names[n] = ev.name

\* C6: a drain runs the queued watchers in ascending precedence, equal
\* precedences in queue order, each exactly once, with every buffered
\* Event it watches and no other.
C6_DrainOrder ==
  Flushed =>
    /\ Len(invoked) = Len(last.ws)
    /\ \A i \in 1..Len(last.ws) : Cardinality(CallsOf(last.ws[i])) = 1
    /\ \A j, k \in 1..Len(invoked) :
         j < k => invoked[j].w.precedence <= invoked[k].w.precedence
    /\ \A a, b \in 1..Len(last.ws) :
         (a < b /\ last.ws[a].precedence = last.ws[b].precedence) =>
           \A j \in CallsOf(last.ws[a]), k \in CallsOf(last.ws[b]) : j < k
    /\ \A j \in 1..Len(invoked) :
         /\ \A n \in 1..Len(invoked[j].args) : Watches(invoked[j].w, invoked[j].args[n])
         /\ \A m \in 1..Len(last.evs) :
              Watches(invoked[j].w, last.evs[m]) =>
                \E n \in 1..Len(invoked[j].args) :
                   invoked[j].args[n].name = last.evs[m].name

\* Some public batching scope is open.
InPublicScope == \E i \in 1..Len(scopes) : scopes[i].kind = "public"

\* C7: while a public batching scope is open the batching flag is true,
\* and the exit of a scope nested in it runs no watcher, does not start a
\* drain, and leaves the buffered events and watchers as they were.
C7_NestedScopes ==
  /\ InPublicScope => BATCH_WATCH
  /\ (last.op = "exit" /\ InPublicScope) =>
       /\ invoked = <<>>
       /\ exc.line # 1842
       /\ events = last.evs
       /\ watchers = last.ws
       /\ BATCH_WATCH

\* A public scope nested in a public scope exited, and an event buffered
\* inside it is still in the buffer.
C7_InnerExit ==
  /\ last.op = "exit"
  /\ last.frame.kind = "public"
  /\ InPublicScope
  /\ Len(events) > last.frame.evLen
  /\ invoked = <<>>

\* C8: a scope left by an exception lets that exception reach the caller,
\* with the batching flag back at its value before the scope and no event
\* or watcher buffered inside the scope left in the buffers.
C8_ExceptionRestores ==
  (last.op = "exit" /\ last.raising /\ last.frame.run /\ ~last.frame.saved) =>
    /\ exc = Raise("BodyError", 105)
    /\ BATCH_WATCH = last.frame.saved
    /\ Len(events) <= last.frame.evLen
    /\ Len(watchers) <= last.frame.wLen

\* C9: update() with a key that is no parameter fails, and the batching
\* flag the caller finds is the one before the call.
C9_UpdateRestoresFlag ==
  (last.op = "update" /\ last.p = UnknownName) =>
    /\ exc # NoExc
    /\ BATCH_WATCH = last.flag

\* C10: the normal exit of the outermost batching scope ends with the event
\* buffer empty, the watcher buffer empty and the batching flag false, no
\* exception raised.
C10_FlushCompletes ==
  (last.op = "exit" /\ ~last.raising /\ last.frame.kind = "public"
     /\ ~last.frame.saved) =>
    /\ exc = NoExc
    /\ events = <<>>
    /\ watchers = <<>>
    /\ ~BATCH_WATCH

\* The callback of last.w ran and handed last.e2 to a watcher that does not
\* skip it.
NestedDispatch ==
  /\ last.op = "call_nested"
  /\ ~last.flag
  /\ ~(last.w.onlychanged /\ ~changed(last.e))
  /\ ~(last.w2.onlychanged /\ ~changed(last.e2))
  /\ last.w2.id # last.w.id

\* C11: events produced inside the callback of a queued watcher are not
\* dispatched while it runs and are delivered once it has returned, with
\* nothing left in the buffer; inside the callback of a watcher that is not
\* queued they are dispatched at once, while it runs.
C11_QueuedCallback ==
  NestedDispatch =>
    /\ Len(invoked) = 2
    /\ invoked[1].w.id = last.w.id
    /\ invoked[2].w.id = last.w2.id
    /\ invoked[2].args[1].old = last.e2.old
    /\ invoked[2].args[1].new = last.e2.new
    /\ invoked[2].depth = IF last.w.queued THEN 1 ELSE 2
    /\ events = last.evs

\* C12: trigger(*names) runs every watcher registered on each named
\* parameter, the onlychanged ones included, once, with an Event whose old
\* and new are the parameter's current value and whose type is 'triggered',
\* inside a batching scope or not, and leaves the parameter values alone.
C12_TriggerFires ==
  (last.op = "trigger" /\ \A n \in 1..Len(last.names) : last.names[n] \in Params) =>
    /\ exc = NoExc
    /\ \A n \in 1..Len(last.names) :
         \A i \in 1..Len(registered[last.names[n]]) :
           LET w == registered[last.names[n]][i] IN
             /\ Cardinality(CallsOf(w)) = 1
             /\ \A j \in CallsOf(w) :
                  /\ invoked[j].args[1].old = InstGet(last.names[n])
                  /\ invoked[j].args[1].new = InstGet(last.names[n])
                  /\ invoked[j].args[1].type = "triggered"

C14_AsyncDispatch ==
  (last.op = "call_watcher" /\ last.w.coroutine /\ ~BATCH_WATCH
     /\ ~(last.w.onlychanged /\ ~changed(last.e))) =>
    IF async_executor
      THEN /\ exc = NoExc
           /\ Len(invoked) = 1
           /\ invoked[1].w.id = last.w.id
           /\ invoked[1].via = "executor"
      ELSE /\ exc.type = "RuntimeError"
           /\ invoked = <<>>

\* A coroutine callback was handed to the executor.
C14_Submitted ==
  /\ last.op = "call_watcher"
  /\ last.w.coroutine
  /\ async_executor
  /\ Len(invoked) = 1
  /\ invoked[1].via = "executor"

\* Every name given to the last watch or watch_values is declared.
NamesDeclared == \A n \in 1..Len(last.names) : last.names[n] \in Params

\* C15: watch and watch_values with a negative precedence raise ValueError
\* and register nothing; with precedence >= 0 they register and return a
\* Watcher with that precedence; every registered watcher has precedence
\* >= 0.
C15_WatchPrecedence ==
  /\ \A p \in Params : \A i \in 1..Len(registered[p]) :
       registered[p][i].precedence >= 0
  /\ (last.op \in {"watch", "watch_values"} /\ last.prec < 0) =>
       /\ exc.type = "ValueError"
       /\ registered = InitialWatchers
  /\ (last.op \in {"watch", "watch_values"} /\ last.prec >= 0 /\ NamesDeclared) =>
       /\ exc = NoExc
       /\ last.w.precedence = last.prec
       /\ \A n \in 1..Len(last.names) :
            \E i \in 1..Len(registered[last.names[n]]) :
              registered[last.names[n]][i] = last.w

\* C16: registering a watcher on names that include an undeclared one
\* raises the parameter-not-found error and leaves every watcher list as
\* it was.
C16_UnknownWatchName ==
  (last.op \in {"watch", "watch_values"} /\ last.prec >= 0 /\ ~NamesDeclared) =>
    /\ exc = Raise("ValueError", 2166)
    /\ registered = InitialWatchers

\* C17: for a parameter with a mutable default and deep_copy, a newly
\* constructed instance holds a value object that is neither the class
\* default nor the object another instance holds.
C17_DeepCopyIsolation ==
  last.op = "construct" =>
    \A p \in Params :
      (DeepCopy(p) /\ Default(p) = ListDefault) =>
        /\ exc = NoExc
        /\ fresh.store[p] # Absent
        /\ FreshGet(p) # Default(p)

\* C18: constructing with a keyword that names no parameter succeeds; the
\* keyword is not set as an attribute and a warning is logged.
C18_UnknownKeyword ==
  (last.op = "construct" /\ last.p = UnknownName) =>
    /\ exc = NoExc
    /\ fresh.initialized
    /\ UnknownName \notin fresh.extra
    /\ fresh.warned

\* C19: a get returns the value the instance stores when an instance is
\* given and stores one, and the class's default otherwise, class-level
\* access included.
C19_GetValue ==
  last.op = "get" =>
    /\ exc = NoExc
    /\ last.v = IF last.via = "instance" /\ store[last.p] # Absent
                  THEN store[last.p] ELSE Default(last.p)

\* C20: assigning a value to a class attribute that names a parameter goes
\* through the parameter's set: it succeeds, the default becomes the value,
\* an instance storing nothing reads it, an instance storing a value keeps
\* its own.
C20_ClassAssignment ==
  (last.op = "classset" /\ last.p \in Params /\ ~ReadOnly(last.p)
     /\ ~Constant(last.p)) =>
    /\ exc = NoExc
    /\ Default(last.p) = last.v
    /\ InstGet(last.p) = IF store[last.p] # Absent THEN store[last.p] ELSE last.v

\* C21: a set that raises has stored nothing (the value read through the
\* instance is the one before the set) and has run no watcher; a set on a
\* parameter that is neither readonly nor constant, on the initialized
\* instance, returns without raising.
C21_FailedSet ==
  /\ (last.op = "set" /\ exc # NoExc) =>
       /\ InstGet(last.p) = last.old
       /\ invoked = <<>>
  /\ (last.op = "set" /\ initialized /\ ~ReadOnly(last.p) /\ ~Constant(last.p)) =>
       exc = NoExc

\* The storage key __set_name__ derives from a name.
InternalName(attrib_name) == "_" \o attrib_name \o "_param_value"

\* C22: __set_name__ on a Parameter with no name yet succeeds and sets the
\* name and the internal storage key; on a Parameter that has a name it
\* raises and leaves the name.
C22_BindOnce ==
  /\ (last.op = "set_name" /\ "name" \in pobj.assigned /\ last.old = "None") =>
       /\ exc = NoExc
       /\ pobj.name = last.p
       /\ pobj.internal_name = InternalName(last.p)
  /\ (last.op = "set_name" /\ "name" \in pobj.assigned /\ last.old # "None") =>
       /\ exc.type = "AttributeError"
       /\ pobj.name = last.old

\* C23: every declared parameter, and every Parameter object that has an
\* owner, satisfies constant => not allow_None, and constructing a
\* Parameter that is constant and allows None raises ValueError.
C23_ConstantNotNone ==
  /\ \A p \in Params : Constant(p) => ~AllowNone(p)
  /\ ({"owner", "constant", "allow_None"} \subseteq pobj.assigned
        /\ pobj.owner # "None") =>
       (pobj.constant => ~pobj.allow_None)
  /\ (last.op = "param_init" /\ last.flags[1]
        /\ (last.flags[3] \/ last.v = NoneVal)) =>
       exc.type = "ValueError"

\* C24: a Parameter whose readonly slot is true has deep_copy false, after
\* any assignments to its slots.
C24_ReadonlyNoDeepCopy ==
  ({"readonly", "deep_copy"} \subseteq pobj.assigned /\ pobj.readonly) =>
    ~pobj.deep_copy

\* The classes whose hierarchy includes cls.
SubclassesOf(cls) ==
  {d \in Classes : \E i \in 1..Len(classlist(d)) : classlist(d)[i] = cls}

\* C25: after add_parameter(name, p) on a class, objects() of that class
\* and of every subclass of it maps name to p.
C25_AddParameterVisible ==
  last.op = "add_parameter" =>
    /\ exc = NoExc
    /\ \A d \in SubclassesOf(last.cls) :
         LET r == ClassParameters_objects(d) IN
           r.exc = NoExc /\ r.ret[last.p] = NewParam

\* C26: objects(existing=True) on the instance returns the class's
\* parameters with the instance-local overrides merged over them, and
\* objects(existing=False) returns the class-level Parameter of every name.
C26_InstanceObjects ==
  last.op = "inst_objects" =>
    /\ exc = NoExc
    /\ \A n \in AttrNames :
         last.ret[n] = IF last.flag /\ InstanceParams[n] # NoParam
                         THEN InstanceParams[n]
                       ELSE BuildParamdict(class_dict, "C")[n]

\* C27: values() returns the current value of every parameter of the
\* instance, and values(onlychanged=True) exactly the values that are not
\* equal to the parameter's default under the Comparator.
C27_Values ==
  last.op = "values" =>
    /\ exc = NoExc
    /\ \A p \in Params :
         last.vals[p] = IF ~last.flag \/ ~is_equal(InstGet(p), Default(p))
                          THEN InstGet(p) ELSE Absent

\* The Comparator applied to any two values of PyValues.
InitCompare ==
  /\ InitState
  /\ \E obj1, obj2 \in PyValues :
       last = [Op("input") EXCEPT !.obj1 = obj1, !.obj2 = obj2]

NextCompare == IsEqual

SpecCompare == InitCompare /\ [][NextCompare]_vars

\* The kinds of value the Comparator's contract tells apart.
Kind(obj) ==
  CASE obj.t \in Numeric -> "number"
    [] obj.t = "str" -> "string"
    [] obj.t = "bytes" -> "bytes"
    [] obj.t = "NoneType" -> "none"
    [] obj.t \in {"date", "datetime"} -> "date"
    [] obj.t \in {"list", "tuple", "set"} -> "sequence"
    [] obj.t = "dict" -> "mapping"
    [] OTHER -> "other"

Keys(obj) == {obj.items[i].n : i \in 1..Len(obj.items)}

C29_RoundTrip ==
  last.op = "round_trip" =>
    /\ exc = NoExc
    /\ last.v = IF last.via = "instance" THEN InstGet(last.p) ELSE Default(last.p)

\* A spec of the form [subpath.]attribute[:slot]: the part before the ':'
\* is one or more non-empty names joined by '.', the slot is one name.
IsName(str) == str # <<>> /\ \A i \in 1..Len(str) : str[i] \in {"a", "b"}
HeadOf(str) ==
  IF count(str, ":") = 0 THEN str ELSE SubSeq(str, 1, FirstIndexOf(str, ":") - 1)
SlotOf(str) == SubSeq(str, FirstIndexOf(str, ":") + 1, Len(str))
SubpathOf(str) == SubSeq(HeadOf(str), 1, LastIndexOf(HeadOf(str), ".") - 1)
AttributeOf(str) ==
  SubSeq(HeadOf(str), LastIndexOf(HeadOf(str), ".") + 1, Len(HeadOf(str)))
IsDottedPath(str) ==
  /\ str # <<>>
  /\ \A i \in 1..Len(str) : str[i] \in {"a", "b", "."}
  /\ str[1] # "." /\ str[Len(str)] # "."
  /\ \A i \in 1..(Len(str) - 1) : ~(str[i] = "." /\ str[i + 1] = ".")
WellFormed(str) ==
  /\ count(str, ":") <= 1
  /\ IsDottedPath(HeadOf(str))
  /\ count(str, ":") = 1 => IsName(SlotOf(str))

\* C30 as stated: for a spec of the form [subpath.]attribute[:slot] the
\* tuple returned is the sub-object path before the last '.' (None when
\* there is none), the last segment before the ':', and the slot after the
\* ':' or 'value'; a spec with more than one ':' is rejected.
C30_ParseAsStated ==
  last.op = "parse" =>
    /\ count(last.spec, ":") > 1 => exc # NoExc
    /\ WellFormed(last.spec) =>
         /\ exc = NoExc
         /\ last.parsed =
              <<IF SubpathOf(last.spec) = <<>> THEN NoneStr ELSE SubpathOf(last.spec),
                AttributeOf(last.spec),
                IF count(last.spec, ":") = 0 THEN ValueStr ELSE SlotOf(last.spec)>>

\* C30: for a spec of the form [subpath.]attribute[:slot] the tuple
\* returned is '.' followed by the sub-object path before the last '.'
\* (None when there is none), the last segment before the ':', and the slot
\* after the ':' or 'value'; a spec with more than one ':' is rejected.
C30_ParseDependencySpec ==
  last.op = "parse" =>
    /\ count(last.spec, ":") > 1 => exc # NoExc
    /\ WellFormed(last.spec) =>
         /\ exc = NoExc
         /\ last.parsed =
              <<IF SubpathOf(last.spec) = <<>> THEN NoneStr
                ELSE <<".">> \o SubpathOf(last.spec),
                AttributeOf(last.spec),
                IF count(last.spec, ":") = 0 THEN ValueStr ELSE SlotOf(last.spec)>>

\* A spec with a sub-object path and a slot was parsed.
C30_ParsedSubpathAndSlot ==
  /\ last.op = "parse"
  /\ WellFormed(last.spec)
  /\ SubpathOf(last.spec) # <<>>
  /\ count(last.spec, ":") = 1
  /\ exc = NoExc

\* ---------------------------------------------------------------------
\* Dependency resolution: InstanceParameters._spec_to_obj
\* ---------------------------------------------------------------------

\* The spec strings given to obj.param._spec_to_obj: "x" is a parameter of
\* obj, "a" names no attribute of it.
DepChars == {"x", "a", ".", ":"}
DepSpecs == UNION {[1..k -> DepChars] : k \in 0..MaxSpecLen}

\* A DInfo record, and the PInfo / MInfo records reduced to their name.
DInfo(str) == [kind |-> "DInfo", spec |-> str]

\* obj.param._spec_to_obj(str, dynamic) for a string spec, intermediate
\* left at its default.  The spec is parsed; without a sub-object path the
\* source object is read as self_.self_or_cls (line 2111), with one and
\* dynamic=False one DInfo is returned (line 2113), with one and
\* dynamic=True self_.self_or_cls is read as the argument of _getattrr
\* (line 2115).  Neither read of self_.self_or_cls returns, so nothing
\* after line 2115 is reached.
spec_to_obj(str, dynamic) ==
  IF parse_dependency_spec(str).exc # NoExc
    THEN [exc |-> Raise(parse_dependency_spec(str).exc.type, 2109),
          deps |-> <<>>, dynamic_deps |-> <<>>]
  ELSE IF parse_dependency_spec(str).ret[1] = NoneStr
    THEN [exc |-> ReadVia("self_or_cls", 2111), deps |-> <<>>, dynamic_deps |-> <<>>]
  ELSE IF ~dynamic
    THEN [exc |-> NoExc, deps |-> <<>>, dynamic_deps |-> <<DInfo(str)>>]
  ELSE [exc |-> ReadVia("self_or_cls", 2115), deps |-> <<>>, dynamic_deps |-> <<>>]

\* obj.param._spec_to_obj applied to the spec drawn
SpecToObj ==
  /\ last.op = "dep"
  /\ \E r \in {spec_to_obj(last.spec, last.flag)} :
       /\ exc' = r.exc
       /\ last' = [last EXCEPT !.op = "spec_to_obj", !.deps = r.deps,
                               !.dynamic_deps = r.dynamic_deps]
  /\ invoked' = <<>>
  /\ UNCHANGED <<extVars, clsVars, pobj, async_executor, initialized, store, registered, fresh, written, dispVars>>

InitDeps ==
  /\ InitState
  /\ \E str \in DepSpecs, dynamic \in BOOLEAN :
       last = [Op("dep") EXCEPT !.spec = str, !.flag = dynamic]

NextDeps == SpecToObj

\* obj.param._spec_to_obj applied to any spec of up to MaxSpecLen
\* characters, with dynamic False or True.
SpecDeps == InitDeps /\ [][NextDeps]_vars

\* A spec [subpath.]attribute[:slot] over the names of DepSpecs
IsDepName(str) == str # <<>> /\ \A i \in 1..Len(str) : str[i] \in {"x", "a"}
IsDepPath(str) ==
  /\ str # <<>>
  /\ \A i \in 1..Len(str) : str[i] \in {"x", "a", "."}
  /\ str[1] # "." /\ str[Len(str)] # "."
  /\ \A i \in 1..(Len(str) - 1) : ~(str[i] = "." /\ str[i + 1] = ".")
DepWellFormed(str) ==
  /\ count(str, ":") <= 1
  /\ IsDepPath(HeadOf(str))
  /\ count(str, ":") = 1 => IsDepName(SlotOf(str))

\* C31: _spec_to_obj with dynamic=False resolves a spec without a
\* sub-object path that names a parameter to one concrete record and no
\* DInfo, and returns for a spec with a sub-object path no concrete record
\* and exactly one DInfo carrying that spec; with dynamic=True a spec
\* without a sub-object path that names a parameter resolves to concrete
\* records and no DInfo.
C31_SpecToObj ==
  (last.op = "spec_to_obj" /\ DepWellFormed(last.spec)) =>
    /\ (SubpathOf(last.spec) = <<>> /\ AttributeOf(last.spec) = <<"x">>) =>
         /\ exc = NoExc
         /\ Len(last.deps) >= 1
         /\ last.dynamic_deps = <<>>
    /\ (SubpathOf(last.spec) # <<>> /\ ~last.flag) =>
         /\ exc = NoExc
         /\ last.deps = <<>>
         /\ last.dynamic_deps = <<DInfo(last.spec)>>

\* ---------------------------------------------------------------------
\* Class-member parameters: Parameter.__set__ and __get__ on class M
\* ---------------------------------------------------------------------

\* Parameter.__set__(inst, val) for parameter p of M.  The owner written to
\* is the instance, or self.owner (the class M) for a class_member
\* parameter.  The store `owner.__dict__[internal_name] = val` (line 1126)
\* is an item assignment on the class's __dict__, a mappingproxy, when the
\* owner is the class: TypeError, nothing stored.  For the instance the
\* value is stored and issubclass(owner, ...) raises at line 1130.
Member_set(inst, p, v) ==
  IF ClassMember(p)
    THEN [exc |-> Raise("TypeError", 1126), cls |-> member_cls, inst |-> member_inst]
  ELSE [exc |-> Raise("TypeError", 1130), cls |-> member_cls,
        inst |-> [member_inst EXCEPT ![inst][p] = v]]

\* Parameter.__get__(inst, M): inst.__dict__.get(internal_name, default),
\* whatever class_member is.
Member_get(inst, p) ==
  IF member_inst[inst][p] # Absent THEN member_inst[inst][p] ELSE Default(p)

\* inst.p = v, inst an instance of M
SetMember(inst, p, v) ==
  /\ \E r \in {Member_set(inst, p, v)} :
       /\ exc' = r.exc
       /\ member_cls' = r.cls
       /\ member_inst' = r.inst
  /\ invoked' = <<>>
  /\ last' = [Op("member_set") EXCEPT !.p = p, !.v = v, !.via = inst,
                                      !.old = Member_get(inst, p)]
  /\ UNCHANGED <<sharedVars, bobj, captured, restored, attrVars, clsVars, pobj, async_executor, initialized, store, registered, fresh, written, dispVars>>

\* inst.p, inst an instance of M
GetMember(inst, p) ==
  /\ exc' = NoExc
  /\ invoked' = <<>>
  /\ last' = [Op("member_get") EXCEPT !.p = p, !.v = Member_get(inst, p), !.via = inst]
  /\ UNCHANGED <<extVars, clsVars, pobj, async_executor, initialized, store, registered, fresh, written, dispVars>>

NextMember ==
  \/ \E inst \in MInsts, p \in MemberParams, v \in Values : SetMember(inst, p, v)
  \/ \E inst \in MInsts, p \in MemberParams : GetMember(inst, p)

\* Attribute writes and reads through the instances of M.
SpecMember == Init /\ [][NextMember]_vars

\* C32: a set of a class_member parameter through any instance stores
\* the value on the owning class and leaves every instance's storage as it
\* was, so that a get through any instance returns the value just set.
C32_ClassMemberSet ==
  (last.op = "member_set" /\ ClassMember(last.p)) =>
    /\ exc = NoExc
    /\ member_cls[last.p] = last.v
    /\ \A inst \in MInsts : member_inst[inst][last.p] = Absent
    /\ \A inst \in MInsts : Member_get(inst, last.p) = last.v

\* ---------------------------------------------------------------------
\* discard_events
\* ---------------------------------------------------------------------

NextDiscard ==
  \/ \E w \in Watchers, e \in EventInputs, fnRaises \in BOOLEAN :
       CallWatcher(w, e, fnRaises)
  \/ \E v \in Nums : SetAttr("y", v)
  \/ \E s \in {<<"public", TRUE, TRUE>>, <<"discard", TRUE, FALSE>>} :
       EnterScope(s[1], s[2], s[3])
  \/ \E bodyRaises \in BOOLEAN : ExitScope(bodyRaises)

\* Writes and dispatch inside discard_events and batch_call_watchers
\* scopes.
SpecDiscard == Init /\ [][NextDiscard]_vars

InDiscardScope == \E i \in 1..Len(scopes) : scopes[i].kind = "discard"

\* C33: no watcher is invoked for a write or a dispatch made inside a
\* discard_events scope; when the scope is left, normally or by an
\* exception, the batching flag and the event and watcher buffers are what
\* they were at entry; and events buffered before the entry are delivered
\* by the flush of the enclosing scope.
C33_DiscardEvents ==
  /\ InDiscardScope => invoked = <<>>
  /\ (last.op = "exit" /\ last.frame.kind = "discard") =>
       /\ invoked = <<>>
       /\ BATCH_WATCH = last.frame.saved
       /\ events = last.frame.evs
       /\ watchers = last.frame.ws
  /\ (last.op = "exit" /\ last.frame.kept /\ last.frame.run /\ ~last.frame.saved) =>
       /\ exc = NoExc
       /\ \A i \in 1..Len(last.ws) : CallsOf(last.ws[i]) # {}
       /\ events = <<>>

\* ---------------------------------------------------------------------
\* shared_parameters and InstanceParameters._deep_copy_param
\* ---------------------------------------------------------------------

\* The object made by the n-th copy.deepcopy of a default: a new object
\* each time.
NewCopy(n) == ListCopy - n

\* shared_parameters.__enter__
SharedEnter ==
  /\ share_depth < MaxDepth
  /\ share' = TRUE
  /\ share_depth' = share_depth + 1
  /\ exc' = NoExc
  /\ invoked' = <<>>
  /\ last' = Op("shared_enter")
  /\ UNCHANGED <<member_cls, member_inst, shared_cache, copies, inscope, bobj, captured, restored, attrVars>>
  /\ UNCHANGED <<clsVars, pobj, async_executor, initialized, store, registered, fresh, written, dispVars>>

\* shared_parameters.__exit__: sharing is switched off and the cache is
\* replaced by an empty one, whether or not another block is still open.
SharedExit ==
  /\ share_depth > 0
  /\ share' = FALSE
  /\ shared_cache' = EmptyCache
  /\ share_depth' = share_depth - 1
  /\ inscope' = IF share_depth = 1 THEN {} ELSE inscope
  /\ exc' = NoExc
  /\ invoked' = <<>>
  /\ last' = Op("shared_exit")
  /\ UNCHANGED <<member_cls, member_inst, copies, bobj, captured, restored, attrVars>>
  /\ UNCHANGED <<clsVars, pobj, async_executor, initialized, store, registered, fresh, written, dispVars>>

\* inst.param._deep_copy_param(p): the object stored under the internal
\* name of p and the cache afterwards.  With sharing on, the cached object
\* is used if there is one, else a new copy is made and cached; with
\* sharing off a new copy is made.
deep_copy_param(inst, p) ==
  IF share /\ shared_cache[p] # Absent
    THEN [new |-> shared_cache[p], cache |-> shared_cache, copies |-> copies]
  ELSE IF share
    THEN [new |-> NewCopy(copies), cache |-> [shared_cache EXCEPT ![p] = NewCopy(copies)],
          copies |-> copies + 1]
  ELSE [new |-> NewCopy(copies), cache |-> shared_cache, copies |-> copies + 1]

DeepCopyParam(inst, p) ==
  /\ copies < MaxCopies
  /\ \E r \in {deep_copy_param(inst, p)} :
       /\ member_inst' = [member_inst EXCEPT ![inst][p] = r.new]
       /\ shared_cache' = r.cache
       /\ copies' = r.copies
  /\ inscope' = IF share_depth > 0 THEN inscope \cup {inst} ELSE inscope
  /\ exc' = NoExc
  /\ invoked' = <<>>
  /\ last' = [Op("deep_copy_param") EXCEPT !.p = p, !.via = inst, !.flag = share]
  /\ UNCHANGED <<member_cls, share, share_depth, bobj, captured, restored, attrVars>>
  /\ UNCHANGED <<clsVars, pobj, async_executor, initialized, store, registered, fresh, written, dispVars>>

NextShared ==
  \/ SharedEnter
  \/ SharedExit
  \/ \E inst \in MInsts : DeepCopyParam(inst, "d")
  \/ \E inst \in MInsts, p \in MemberParams : GetMember(inst, p)

\* Copies of the default of d given to the instances of M, inside and
\* outside shared_parameters blocks.
SpecShared == Init /\ [][NextShared]_vars

\* C34: while a shared_parameters block is open, also after a block nested
\* in it was left, the instances of M given their copy of d since the
\* outermost block was entered hold one and the same object; once the
\* outermost block is left, sharing is off and the cache is empty, and an
\* instance given its copy afterwards shares it with no other instance.
C34_SharedParameters ==
  /\ share_depth > 0 =>
       \A i1, i2 \in inscope : member_inst[i1]["d"] = member_inst[i2]["d"]
  /\ share_depth = 0 => (~share /\ shared_cache = EmptyCache)
  /\ (last.op = "deep_copy_param" /\ share_depth = 0) =>
       \A i2 \in MInsts \ {last.via} :
         member_inst[i2]["d"] # member_inst[last.via]["d"]

\* ---------------------------------------------------------------------
\* trigger and the dispatch that follows it
\* ---------------------------------------------------------------------

NextTrigger ==
  \/ \E names \in NameInputs : Trigger(names)
  \/ \E w \in Watchers, e \in EventInputs, fnRaises \in BOOLEAN :
       CallWatcher(w, e, fnRaises)
  \/ EnterScope("public", TRUE, TRUE)
  \/ \E bodyRaises \in BOOLEAN : ExitScope(bodyRaises)

\* trigger() between dispatches, inside and outside batching scopes.
SpecTrigger == Init /\ [][NextTrigger]_vars

BoolVal(b) == IF b THEN 1 ELSE 0

\* `watched`: the attribute is not `default` and is a key of self.watchers
slot_watched(o, attribute) ==
  /\ attribute # "default"
  /\ "watchers" \in o.assigned
  /\ o.watchers[attribute] # <<>>

\* The test after the store: the method returns when `old is not watched`
\* or when the owner is no Parameterized instance.  watched is a boolean,
\* so the method goes on only for a watched slot whose previous value is
\* the object True, on a Parameter whose owner is the instance obj.
slot_dispatches(o, attribute) ==
  /\ slot_watched(o, attribute)
  /\ attribute \in o.assigned /\ o[attribute] = TRUE
  /\ o.owner = "obj"

SlotEvent(o, attribute, value) ==
  [Event(o.name, BoolVal(o[attribute]), BoolVal(value), "None") EXCEPT !.what = attribute]

\* Parameter.__setattr__(attribute, value) on object o for a boolean slot,
\* with the dispatch to the slot's watcher (o holds at most one per slot):
\* the name test and the store as in Parameter_setattr, then the event is
\* handed to obj.param._call_watcher and, with batching off, the buffers
\* are drained.
Parameter_setattr_watched(o, attribute, value) ==
  IF Parameter_setattr(o, attribute, value).exc # NoExc
    THEN [exc |-> Parameter_setattr(o, attribute, value).exc, o |-> o,
          events |-> events, watchers |-> watchers, invoked |-> <<>>]
  ELSE IF ~slot_dispatches(o, attribute)
    THEN [exc |-> NoExc, o |-> Parameter_setattr(o, attribute, value).o,
          events |-> events, watchers |-> watchers, invoked |-> <<>>]
  ELSE [exc |-> IF call_watcher(o.watchers[attribute][1],
                                SlotEvent(o, attribute, value), FALSE).exc # NoExc
                  THEN Raise("CallbackError", 1057)
                ELSE IF ~BATCH_WATCH THEN Raise(drain.exc.type, 1059)
                ELSE NoExc,
        o |-> Parameter_setattr(o, attribute, value).o,
        events |-> call_watcher(o.watchers[attribute][1],
                                SlotEvent(o, attribute, value), FALSE).events,
        watchers |-> call_watcher(o.watchers[attribute][1],
                                  SlotEvent(o, attribute, value), FALSE).watchers,
        invoked |-> call_watcher(o.watchers[attribute][1],
                                 SlotEvent(o, attribute, value), FALSE).invoked]

\* C.param['y'].<slot> = value
SetBoundSlot(slot, value) ==
  /\ \E r \in {Parameter_setattr_watched(bobj, slot, value)} :
       /\ bobj' = r.o
       /\ events' = r.events
       /\ watchers' = r.watchers
       /\ invoked' = r.invoked
       /\ exc' = r.exc
  /\ last' = [Op("set_bound_slot") EXCEPT !.p = slot, !.v = BoolVal(value),
                                         !.old = BoolVal(bobj[slot]),
                                         !.ws = bobj.watchers[slot]]
  /\ UNCHANGED <<member_cls, member_inst, sharedVars, captured, restored, attrVars>>
  /\ UNCHANGED <<clsVars, pobj, async_executor, initialized, store, registered, fresh, written, BATCH_WATCH, TRIGGER, scopes>>

NextBound ==
  \/ \E slot \in BoolSlots, value \in BOOLEAN : SetBoundSlot(slot, value)
  \/ NextParam

\* Slot assignment on the bound Parameter object of y and on the unbound
\* object pobj.
SpecBound == Init /\ [][NextBound]_vars

\* C36: assigning a new value to a slot of the bound Parameter that has
\* watchers registered invokes each of them with an Event carrying what =
\* the slot name, old = the slot's previous value and new = the assigned
\* value; assigning a slot without watchers invokes none.
C36_SlotWatchers ==
  last.op = "set_bound_slot" =>
    /\ (last.ws # <<>> /\ last.v # last.old) =>
         /\ exc = NoExc
         /\ \A i \in 1..Len(last.ws) :
              /\ Cardinality(CallsOf(last.ws[i])) = 1
              /\ \A j \in CallsOf(last.ws[i]) :
                   /\ invoked[j].args[1].what = last.p
                   /\ invoked[j].args[1].old = last.old
                   /\ invoked[j].args[1].new = last.v
    /\ last.ws = <<>> => invoked = <<>>

\* ---------------------------------------------------------------------
\* edit_constant
\* ---------------------------------------------------------------------

\* edit_constant(obj) up to its yield.  The parameters are collected with
\* obj.param.objects('existing'); an exception of that call leaves the
\* context manager at line 118, before the try.  Each `p.constant = False`
\* that follows is an assignment to a slot of a bound Parameter, which
\* Parameter.__setattr__ refuses for the first parameter already.
\* `entered` tells whether the body of the with statement is reached, and
\* `constant` gives the constant flag of each parameter afterwards.
edit_constant ==
  IF InstanceParameters_objects(TRUE).exc # NoExc
    THEN [exc |-> Raise(InstanceParameters_objects(TRUE).exc.type, 118),
          entered |-> FALSE, constant |-> [p \in Params |-> Constant(p)]]
  ELSE IF Parameter_setattr(BoundSlots, "constant", FALSE).exc # NoExc
    THEN [exc |-> Raise(Parameter_setattr(BoundSlots, "constant", FALSE).exc.type, 121),
          entered |-> FALSE, constant |-> [p \in Params |-> Constant(p)]]
  ELSE [exc |-> NoExc, entered |-> TRUE, constant |-> [p \in Params |-> FALSE]]

\* with edit_constant(obj): obj.p = v
EditConstant(p, v) ==
  /\ \E r \in {edit_constant} :
       /\ exc' = r.exc
       /\ last' = [Op("edit_constant") EXCEPT !.p = p, !.v = v, !.flag = r.entered,
                                             !.flags = <<r.constant[p]>>,
                                             !.old = InstGet(p)]
  /\ invoked' = <<>>
  /\ UNCHANGED <<extVars, clsVars, pobj, async_executor, initialized, store, registered, fresh, written, dispVars>>

NextEdit ==
  \/ \E p \in Params, v \in Values : EditConstant(p, v)
  \/ \E p \in Params, v \in Values : SetAttr(p, v)
  \/ \E via \in {"instance", "class"}, p \in Params : GetAttr(via, p)

\* Attribute writes outside and inside edit_constant.
SpecEdit == Init /\ [][NextEdit]_vars

\* C37: inside an edit_constant scope every parameter of the object has
\* constant == False, so that the body is reached and a constant parameter
\* can be set there; when the scope has been left, every parameter's
\* constant flag is what it was at entry.
C37_EditConstant ==
  last.op = "edit_constant" =>
    /\ last.flag
    /\ last.flags = <<FALSE>>
    /\ exc = NoExc

\* ---------------------------------------------------------------------
\* Parameterized.__getstate__ and __setstate__
\* ---------------------------------------------------------------------

\* Watcher.__iter__: the fields but the last one, precedence.  The callback
\* is written by its id and whether it is a coroutine function.
Watcher_iter(w) ==
  <<[id |-> w.id, coroutine |-> w.coroutine], w.mode, w.onlychanged,
    w.parameter_names, w.what, w.queued>>

\* Watcher.__new__(*args) for the fields after inst and cls: a precedence
\* that is not given is 0.
Watcher_new(args) ==
  [id |-> args[1].id, mode |-> args[2], onlychanged |-> args[3],
   parameter_names |-> args[4], what |-> args[5], queued |-> args[6],
   precedence |-> IF Len(args) >= 7 THEN args[7] ELSE 0,
   coroutine |-> args[1].coroutine]

\* The list of watchers __setstate__ builds from one list of the state:
\* Watcher(*list(watcher)) for each, inst replaced by the restored object
\* (the callbacks are plain functions and are kept).
new_watchers(ws) == [i \in 1..Len(ws) |-> Watcher_new(Watcher_iter(ws[i]))]

\* obj.__getstate__(): a copy of obj.__dict__
getstate ==
  [made |-> TRUE, initialized |-> initialized, store |-> store,
   param_watchers |-> registered]

\* state = obj.__getstate__(), as pickled
GetState ==
  /\ captured' = getstate
  /\ exc' = NoExc
  /\ invoked' = <<>>
  /\ last' = Op("getstate")
  /\ UNCHANGED <<member_cls, member_inst, sharedVars, bobj, restored, attrVars>>
  /\ UNCHANGED <<clsVars, pobj, async_executor, initialized, store, registered, fresh, written, dispVars>>

\* new.__setstate__(state) on an object made without __init__:
\* initialized is cleared, every watcher list is rebuilt, every entry of
\* the state is set as an attribute, and initialized is set.
setstate(state) ==
  [made |-> TRUE, initialized |-> TRUE, store |-> state.store,
   param_watchers |-> [p \in Params |-> new_watchers(state.param_watchers[p])]]

SetState ==
  /\ captured.made
  /\ restored' = setstate(captured)
  /\ exc' = NoExc
  /\ invoked' = <<>>
  /\ last' = Op("setstate")
  /\ UNCHANGED <<member_cls, member_inst, sharedVars, bobj, captured, attrVars>>
  /\ UNCHANGED <<clsVars, pobj, async_executor, initialized, store, registered, fresh, written, dispVars>>

NextState ==
  \/ GetState
  \/ SetState
  \/ \E p \in {"y", "m"}, v \in Values : SetAttr(p, v)

\* An instance pickled and restored between writes.
SpecState == Init /\ [][NextState]_vars

\* C38: restoring from a captured state re-creates each value watcher with
\* the same mode, onlychanged, parameter_names, what, queued and precedence
\* (and callback), and leaves the restored instance initialized.
C38_SetStateWatchers ==
  last.op = "setstate" =>
    /\ exc = NoExc
    /\ restored.initialized
    /\ \A p \in Params :
         /\ Len(restored.param_watchers[p]) = Len(captured.param_watchers[p])
         /\ \A i \in 1..Len(captured.param_watchers[p]) :
              restored.param_watchers[p][i] = captured.param_watchers[p][i]

\* ---------------------------------------------------------------------
\* watch followed by unwatch
\* ---------------------------------------------------------------------

\* InstanceParameters.unwatch(watcher):
\* self._register_watcher('remove', watcher, what=watcher.what)
unwatch(w) == register_watcher("remove", w)

\* obj.param.unwatch(w)
Unwatch(w) ==
  /\ \E r \in {unwatch(w)} :
       /\ registered' = r.registered
       /\ exc' = r.exc
  /\ last' = [Op("unwatch") EXCEPT !.w = w, !.names = w.parameter_names]
  /\ invoked' = <<>>
  /\ UNCHANGED <<extVars, clsVars, pobj, async_executor, initialized, store, fresh, written, dispVars>>

NextWatch ==
  \/ \E names \in NameInputs, oc, q \in BOOLEAN, prec \in PrecedenceInputs :
       Watch(names, oc, q, prec)
  \/ \E w \in Watchers \cup {Watcher("w5", TRUE, <<"y">>, FALSE, 0)} : Unwatch(w)
  \/ \E w \in Watchers, e \in EventInputs, fnRaises \in BOOLEAN :
       CallWatcher(w, e, fnRaises)
  \/ EnterScope("public", TRUE, TRUE)
  \/ \E bodyRaises \in BOOLEAN : ExitScope(bodyRaises)

\* Registration and removal of watchers between dispatches.
SpecWatch == Init /\ [][NextWatch]_vars

\* w is in the list of value watchers of parameter p
Registered(w, p) == \E i \in 1..Len(registered[p]) : registered[p][i].id = w.id

\* C39: watch(fn, 'y') returns a watcher w that is registered on y, and
\* unwatch(w) of a registered watcher removes it and leaves the others
\* registered, so that the lists after watch and unwatch are those before.
C39_WatchUnwatch ==
  /\ (last.op = "watch" /\ last.names = <<"y">> /\ last.prec >= 0) =>
       /\ exc = NoExc
       /\ last.w # NoWatcher
       /\ Registered(last.w, "y")
  /\ (last.op = "unwatch" /\ last.w \in Watchers) =>
       /\ exc = NoExc
       /\ ~Registered(last.w, "y")
       /\ \A w \in Watchers \ {last.w} : Registered(w, "y")

\* ---------------------------------------------------------------------
\* The `attribute` descriptor of param/attribute.py
\* ---------------------------------------------------------------------

\* attribute.__init__(fget, fset, fdel, fval): fval is stored as given.
attribute_init(fval) == [exc |-> NoExc, fval |-> fval, len_signature |-> len_signature]

\* attribute.validator(fval), the descriptor of the class being replaced
\* by the one returned: None returns the validator held or raises; a
\* callable that is no function, a function of no or more than two
\* arguments, and a function that has __len_signature__ already are
\* refused; otherwise the number of arguments is stored on the function
\* and a new descriptor holding it is returned.
attribute_validator(fval) ==
  IF fval = NoFunction
    THEN [exc |-> IF prop_fval # NoFunction THEN NoExc
                  ELSE Raise("NotImplementedError", 22),
          fval |-> prop_fval, len_signature |-> len_signature]
  ELSE IF fval = "nf"
    THEN [exc |-> Raise("TypeError", 24), fval |-> prop_fval,
          len_signature |-> len_signature]
  ELSE IF ~(0 < Arity(fval) /\ Arity(fval) <= 2)
    THEN [exc |-> Raise("AssertionError", 26), fval |-> prop_fval,
          len_signature |-> len_signature]
  ELSE IF len_signature[fval] # 0
    THEN [exc |-> Raise("AttributeError", 28), fval |-> prop_fval,
          len_signature |-> len_signature]
  ELSE [exc |-> NoExc, fval |-> fval,
        len_signature |-> [len_signature EXCEPT ![fval] = Arity(fval)]]

\* The arguments the validator is called with
ValidatorCall(n, v) ==
  [fn |-> "validator", args |-> IF n = 1 THEN <<v>> ELSE <<ObjVal, v>>]
SetterCall(v) == [fn |-> "setter", args |-> <<ObjVal, v>>]

\* attribute.__set__(obj, value): with a validator held, its
\* __len_signature__ is read (AttributeError when the function has none),
\* the validator is called with (value) or (obj, value) as the number
\* stored tells (it is the number of arguments the function takes), and
\* then the setter through property.__set__.  rejects tells whether the validator
\* raises for the value.
attribute_set(v, rejects) ==
  IF prop_fval = NoFunction
    THEN [exc |-> NoExc, value |-> v, calls |-> <<SetterCall(v)>>]
  ELSE IF len_signature[prop_fval] = 0
    THEN [exc |-> Raise("AttributeError", 35), value |-> attr_value, calls |-> <<>>]
  ELSE IF rejects
    THEN [exc |-> Raise("ValidatorError", IF len_signature[prop_fval] = 1 THEN 36 ELSE 38),
          value |-> attr_value,
          calls |-> <<ValidatorCall(len_signature[prop_fval], v)>>]
  ELSE [exc |-> NoExc, value |-> v,
        calls |-> <<ValidatorCall(len_signature[prop_fval], v), SetterCall(v)>>]

\* prop = attribute(fget, fset, fdel, fval)
AttrInit(fval) ==
  /\ \E r \in {attribute_init(fval)} :
       /\ exc' = r.exc
       /\ prop_fval' = r.fval
       /\ len_signature' = r.len_signature
  /\ calls' = <<>>
  /\ invoked' = <<>>
  /\ last' = [Op("attr_init") EXCEPT !.via = fval]
  /\ UNCHANGED <<member_cls, member_inst, sharedVars, bobj, captured, restored, attr_value>>
  /\ UNCHANGED <<clsVars, pobj, async_executor, initialized, store, registered, fresh, written, dispVars>>

\* prop = prop.validator(fval)
AttrValidator(fval) ==
  /\ \E r \in {attribute_validator(fval)} :
       /\ exc' = r.exc
       /\ prop_fval' = r.fval
       /\ len_signature' = r.len_signature
  /\ calls' = <<>>
  /\ invoked' = <<>>
  /\ last' = [Op("attr_validator") EXCEPT !.via = fval]
  /\ UNCHANGED <<member_cls, member_inst, sharedVars, bobj, captured, restored, attr_value>>
  /\ UNCHANGED <<clsVars, pobj, async_executor, initialized, store, registered, fresh, written, dispVars>>

\* obj.prop = v
AttrSet(v, rejects) ==
  /\ \E r \in {attribute_set(v, rejects)} :
       /\ exc' = r.exc
       /\ attr_value' = r.value
       /\ calls' = r.calls
  /\ invoked' = <<>>
  /\ last' = [Op("attr_set") EXCEPT !.v = v, !.old = attr_value, !.via = prop_fval,
                                   !.raising = rejects]
  /\ UNCHANGED <<member_cls, member_inst, sharedVars, bobj, captured, restored, prop_fval, len_signature>>
  /\ UNCHANGED <<clsVars, pobj, async_executor, initialized, store, registered, fresh, written, dispVars>>

NextAttribute ==
  \/ \E fval \in Functions \cup {NoFunction} : AttrInit(fval)
  \/ \E fval \in Functions \cup {NoFunction} : AttrValidator(fval)
  \/ \E v \in Values, rejects \in BOOLEAN : AttrSet(v, rejects)

\* One `attribute` descriptor: construction, validator() and assignment.
SpecAttribute == Init /\ [][NextAttribute]_vars

\* C40: an assignment through a descriptor that holds a validator of one
\* or two arguments, attached by validator(fval) or given to the
\* constructor, calls the validator first, with (value) or (obj, value);
\* the setter is called after it if and only if the validator returned;
\* when the validator raises, the stored value is unchanged.
C40_ValidatorBeforeSetter ==
  (last.op = "attr_set" /\ last.via \in {"f1", "f2"}) =>
    /\ calls # <<>>
    /\ calls[1] = ValidatorCall(Arity(last.via), last.v)
    /\ ~last.raising =>
         /\ calls = <<ValidatorCall(Arity(last.via), last.v), SetterCall(last.v)>>
         /\ attr_value = last.v
         /\ exc = NoExc
    /\ last.raising =>
         /\ Len(calls) = 1
         /\ attr_value = last.old
         /\ exc # NoExc
====
